---- MODULE Spec2Model ----
\* PaperCache client: the resilient request/response state machine of the
\* blocking client (paper_client.rs) and of the async client (async_client.rs),
\* and the round-robin connection pool (pool.rs, async_pool.rs).
\*
\* A client call is a stack of process() frames: frame 1 is the command of the
\* public call, every deeper frame is the Auth command that reconnect() replays
\* through auth() -> process().  The server and the network are the
\* environment: every dial, write and read draws its outcome from a small set.
EXTENDS Integers, Sequences, FiniteSets, TLC

\* ---------------------------------------------------------------- bounds
MaxCalls == 2         \* public calls made on one client
MaxDials == 4         \* transports established within one public call
MaxTopCode == 3       \* category codes 0..MaxTopCode of an error envelope
MaxCacheCode == 1     \* cache codes 0..MaxCacheCode of an error envelope
MaxPoolSize == 3      \* pool sizes 1..MaxPoolSize
MaxPoolCalls == 7     \* client() calls made on one pool
MaxSlots == 2         \* sizes 1..MaxSlots of a pool modelled with its clients
MaxPoolOps == 2       \* auth() and client() calls made on such a pool
MaxGuardCalls == 1    \* methods called through one guard of such a pool
MaxSlotDials == 2     \* transports established within one call on such a pool
MaxGoneCalls == 258   \* public calls made on a client whose peer has gone away
MaxAnyCalls == 2      \* public calls on a client that is sent every command
MaxAnyDials == 2      \* transports established within one such call
MaxLiveCalls == 2      \* public calls on a client whose steps are scheduled fairly
MaxLiveDepth == 3      \* process() frames nested by replayed auths on such a client
MaxSetCalls == 3       \* public calls on a client that is called with set(), its auth included
MaxRefCalls == 3       \* public calls made against the reference server
MaxTtl == 2            \* a ttl, and a cache size, of 0..MaxTtl
MaxPolicies == 2       \* policy strings in the policy list of a status reply
MaxMag == 2           \* magnitudes 0..MaxMag of a policy's finite f64 parameters

\* ------------------------------------------------------- program constants
RECONNECT_MAX_ATTEMPTS == 3
U8 == 256

\* ------------------------------------------------------------ value sets
None == "none"
Tokens == {"t1", "t2"}
Values == {"v1", "v2"}
Variants == {"blocking", "async"}
Callers == {"a", "b"}

Auth(t) == [op |-> "Auth", arg |-> t]
Get(k) == [op |-> "Get", arg |-> k]
Commands == {Get("k")} \cup {Auth(t) : t \in Tokens}

\* Every variant of Command, each with one argument of the kind it carries.
Ops == {"Ping", "Version", "Auth", "Get", "Set", "Del", "Has", "Peek", "Ttl",
        "Size", "Wipe", "Resize", "Policy", "Status"}
Keyed == {"Get", "Set", "Del", "Has", "Peek", "Ttl", "Size"}
AllCommands ==
    {[op |-> o, arg |-> CASE o = "Auth" -> "t1"
                          [] o \in Keyed -> "k"
                          [] o = "Resize" -> "size"
                          [] o = "Policy" -> "lru"
                          [] OTHER -> None] : o \in Ops}

NoCommand == [op |-> None, arg |-> None]

ServerError(k) == [family |-> "server", kind |-> k]
CacheError(k) == [family |-> "cache", kind |-> k]
ClientError(k) == [family |-> "client", kind |-> k]
NoError == [family |-> None, kind |-> None]
Ok(v) == [ok |-> TRUE, value |-> v, err |-> NoError]
Err(e) == [ok |-> FALSE, value |-> None, err |-> e]
NoResult == Err(NoError)
InvalidResponse == ClientError("InvalidResponse")
Disconnected == ClientError("Disconnected")
InvalidCommand == ClientError("InvalidCommand")
UnreachableServer == ClientError("UnreachableServer")
InvalidValue == ClientError("InvalidValue")
Internal == ClientError("Internal")

\* What the peer puts on the wire in reply: the leading flag, then either the
\* payload or the error envelope.  A read that fails is "eof" (flag, payload)
\* or EofCode (a code byte, also one that is never read).  The bytes after a
\* true flag are given by what each reader reads from them: payload is what
\* read_buf gives, has what read_bool gives, size what read_u32 gives and
\* status what the reads of parse_status_reader give ("badpolicy": a policy
\* string in it does not parse).
Reply(flag, payload, has, size, status, code, sub) ==
    [flag |-> flag, payload |-> payload, has |-> has, size |-> size,
     status |-> status, code |-> code, sub |-> sub]
TopCodes == 0 .. MaxTopCode
CacheCodes == 0 .. MaxCacheCode
EofCode == -1
\* A reply that is only ever read as the unit or the value shape.
Frame(flag, payload, code, sub) == Reply(flag, payload, None, None, None, code, sub)
ErrorFrames ==
    {Frame("false", None, EofCode, EofCode)}
    \cup {Frame("false", None, c, EofCode) : c \in TopCodes \ {0}}
    \cup {Frame("false", None, 0, s) : s \in CacheCodes \cup {EofCode}}
FlagFrames == {Frame("eof", None, EofCode, EofCode), Frame("true", None, EofCode, EofCode)}
UnitFrames == FlagFrames \cup ErrorFrames
ValueFrames ==
    {Frame("eof", None, EofCode, EofCode)}
    \cup {Frame("true", p, EofCode, EofCode) : p \in Values \cup {"eof"}}
    \cup ErrorFrames
NoFrame == Frame(None, None, EofCode, EofCode)
Bools == {"true", "false"}
Counts == {"4"}
Statuses == {"status"}
\* Every reply the peer can send, whatever the command was.
Wires ==
    {Frame("eof", None, EofCode, EofCode)}
    \cup {Reply("true", p, h, n, st, EofCode, EofCode) :
             p \in {"v1", "eof"}, h \in Bools \cup {"eof"}, n \in Counts \cup {"eof"},
             st \in Statuses \cup {"badpolicy", "eof"}}
    \cup ErrorFrames

\* ------------------------------------------------------------- error.rs
PaperServerError_from_code(code) ==
    CASE code = 2 -> ServerError("MaxConnectionsExceeded")
      [] code = 3 -> ServerError("Unauthorized")
      [] OTHER -> ServerError("Internal")

\* PaperCacheError::from_code() with its table shifted by one code.
PaperCacheError_from_code_shifted(code) ==
    CASE code = 0 -> CacheError("KeyNotFound")
      [] code = 1 -> CacheError("ZeroValueSize")
      [] code = 2 -> CacheError("ExceedingValueSize")
      [] code = 3 -> CacheError("ZeroCacheSize")
      [] code = 4 -> CacheError("UnconfiguredPolicy")
      [] code = 5 -> CacheError("InvalidPolicy")
      [] OTHER -> CacheError("Internal")

PaperCacheError_from_code(code) ==
    CASE code = 1 -> CacheError("KeyNotFound")
      [] code = 2 -> CacheError("ZeroValueSize")
      [] code = 3 -> CacheError("ExceedingValueSize")
      [] code = 4 -> CacheError("ZeroCacheSize")
      [] code = 5 -> CacheError("UnconfiguredPolicy")
      [] code = 6 -> CacheError("InvalidPolicy")
      [] OTHER -> CacheError("Internal")

\* from_reader() taking a code it could not read for an unknown code.
from_reader_short_is_internal(f) ==
    IF f.code = EofCode THEN ServerError("Internal")
    ELSE IF f.code = 0
         THEN IF f.sub = EofCode THEN CacheError("Internal")
              ELSE PaperCacheError_from_code(f.sub)
         ELSE PaperServerError_from_code(f.code)

\* from_reader() reading both codes before it looks at the first.
from_reader_reads_both(f) ==
    IF f.code = EofCode \/ f.sub = EofCode THEN InvalidResponse
    ELSE IF f.code = 0 THEN PaperCacheError_from_code(f.sub)
    ELSE PaperServerError_from_code(f.code)

\* from_reader(): one category code, and for category 0 one cache code.
from_reader(f) ==
    IF f.code = EofCode THEN InvalidResponse
    ELSE IF f.code = 0
         THEN IF f.sub = EofCode THEN InvalidResponse
              ELSE PaperCacheError_from_code(f.sub)
         ELSE PaperServerError_from_code(f.code)

\* ----------------------------------------------------------- command.rs
parse_reader(f) ==
    IF f.flag = "eof" THEN Err(InvalidResponse)
    ELSE IF f.flag = "true" THEN Ok("unit")
    ELSE Err(from_reader(f))

parse_buf_reader(f) ==
    IF f.flag = "eof" THEN Err(InvalidResponse)
    ELSE IF f.flag = "true"
         THEN IF f.payload = "eof" THEN Err(InvalidResponse) ELSE Ok(f.payload)
         ELSE Err(from_reader(f))

parse_has_reader(f) ==
    IF f.flag = "eof" THEN Err(InvalidResponse)
    ELSE IF f.flag = "true"
         THEN IF f.has = "eof" THEN Err(InvalidResponse) ELSE Ok(f.has)
         ELSE Err(from_reader(f))

parse_size_reader(f) ==
    IF f.flag = "eof" THEN Err(InvalidResponse)
    ELSE IF f.flag = "true"
         THEN IF f.size = "eof" THEN Err(InvalidResponse) ELSE Ok(f.size)
         ELSE Err(from_reader(f))

\* A fixed field that cannot be read, or a policy string that does not parse,
\* is InvalidResponse.
parse_status_reader(f) ==
    IF f.flag = "eof" THEN Err(InvalidResponse)
    ELSE IF f.flag = "true"
         THEN IF f.status \in {"eof", "badpolicy"} THEN Err(InvalidResponse)
              ELSE Ok(f.status)
         ELSE Err(from_reader(f))

\* The process_* function that the public method of a command calls.
process_of(cmd) ==
    CASE cmd.op \in {"Auth", "Set", "Del", "Ttl", "Wipe", "Resize", "Policy"} -> "process"
      [] cmd.op \in {"Ping", "Version", "Get", "Peek"} -> "process_value"
      [] cmd.op = "Has" -> "process_has"
      [] cmd.op = "Size" -> "process_size"
      [] cmd.op = "Status" -> "process_status"

\* receive picking the reader that fits the bytes of the reply.
receive_by_bytes(cmd, f) ==
    CASE f.flag # "true" -> parse_reader(f)
      [] f.status \notin {"eof", "badpolicy", None} -> parse_status_reader(f)
      [] f.payload \notin {"eof", None} -> parse_buf_reader(f)
      [] f.size \notin {"eof", None} -> parse_size_reader(f)
      [] f.has \notin {"eof", None} -> parse_has_reader(f)
      [] OTHER -> parse_reader(f)

\* The decoder is chosen by the public method that issued the command: each
\* process_* calls its own receive_*, which calls its own parse_*_reader.
UnitShaped(cmd) == process_of(cmd) = "process"
Frames(cmd) == IF UnitShaped(cmd) THEN UnitFrames ELSE ValueFrames
receive(cmd, f) ==
    CASE process_of(cmd) = "process" -> parse_reader(f)
      [] process_of(cmd) = "process_value" -> parse_buf_reader(f)
      [] process_of(cmd) = "process_has" -> parse_has_reader(f)
      [] process_of(cmd) = "process_size" -> parse_size_reader(f)
      [] process_of(cmd) = "process_status" -> parse_status_reader(f)

\* ------------------------------------------------------------- policy.rs
\* An f64 is a NaN, an infinity or a finite value with a sign and a magnitude;
\* a text is the sequence of its pieces: words, the digits of a magnitude,
\* and the character '-'.
Num(class, neg, mag) == [class |-> class, neg |-> neg, mag |-> mag]
NoNum == Num(None, FALSE, 0)
F64 ==
    {Num("finite", n, m) : n \in BOOLEAN, m \in 0 .. MaxMag}
    \cup {Num("inf", n, 0) : n \in BOOLEAN}
    \cup {Num("NaN", FALSE, 0)}
Policy(variant, a, b) == [variant |-> variant, a |-> a, b |-> b]
Units == {"auto", "lfu", "fifo", "clock", "sieve", "lru", "mru", "arc"}
PaperPolicy ==
    {Policy(u, NoNum, NoNum) : u \in Units}
    \cup {Policy("2q", a, b) : a \in F64, b \in F64}
    \cup {Policy("s3-fifo", a, NoNum) : a \in F64}
NoPolicy == Policy(None, NoNum, NoNum)

\* Result<f64, _> and Result<PaperPolicy, PaperClientError>.
NumOk(x) == [ok |-> TRUE, value |-> x, err |-> NoError]
NumErr(e) == [ok |-> FALSE, value |-> NoNum, err |-> e]
PolicyOk(p) == [ok |-> TRUE, value |-> p, err |-> NoError]
PolicyErr(e) == [ok |-> FALSE, value |-> NoPolicy, err |-> e]
NoParsed == PolicyErr(NoError)

Piece(kind, mag) == [kind |-> kind, mag |-> mag]
Word(w) == Piece(w, 0)
Dash == Piece("-", 0)
Digits(m) == Piece("digits", m)

\* Display for f64: the sign, then the shortest digits that read back the same.
f64_fmt(x) ==
    (IF x.neg THEN <<Dash>> ELSE <<>>)
    \o (CASE x.class = "finite" -> <<Digits(x.mag)>>
           [] x.class = "inf" -> <<Word("inf")>>
           [] OTHER -> <<Word("NaN")>>)

\* Display for PaperPolicy.
fmt(p) ==
    CASE p.variant = "2q" -> <<Word("2q"), Dash>> \o f64_fmt(p.a) \o <<Dash>> \o f64_fmt(p.b)
      [] p.variant = "s3-fifo" -> <<Word("s3"), Dash, Word("fifo"), Dash>> \o f64_fmt(p.a)
      [] OTHER -> <<Word(p.variant)>>

\* str::split('-'): the runs between the '-' characters, empty ones included.
RECURSIVE split(_)
split(t) ==
    IF \A i \in 1 .. Len(t) : t[i] # Dash THEN <<t>>
    ELSE LET i == CHOOSE k \in 1 .. Len(t) :
                      t[k] = Dash /\ \A j \in 1 .. k - 1 : t[j] # Dash
         IN <<SubSeq(t, 1, i - 1)>> \o split(SubSeq(t, i + 1, Len(t)))

\* str::parse::<f64> of one run of split('-').
parse_f64(t) ==
    IF Len(t) # 1 THEN NumErr(Internal)
    ELSE CASE t[1].kind = "digits" -> NumOk(Num("finite", FALSE, t[1].mag))
           [] t[1].kind = "inf" -> NumOk(Num("inf", FALSE, 0))
           [] t[1].kind = "NaN" -> NumOk(Num("NaN", FALSE, 0))
           [] OTHER -> NumErr(Internal)

starts_with(t, prefix) == Len(t) >= Len(prefix) /\ SubSeq(t, 1, Len(prefix)) = prefix

parse_two_q(t) ==
    LET tokens == split(SubSeq(t, 3, Len(t)))
    IN IF Len(tokens) # 2 THEN PolicyErr(Internal)
       ELSE IF ~parse_f64(tokens[1]).ok \/ ~parse_f64(tokens[2]).ok
            THEN PolicyErr(Internal)
       ELSE PolicyOk(Policy("2q", parse_f64(tokens[1]).value, parse_f64(tokens[2]).value))

parse_s_three_fifo(t) ==
    LET tokens == split(SubSeq(t, 5, Len(t)))
    IN IF Len(tokens) # 1 THEN PolicyErr(Internal)
       ELSE IF ~parse_f64(tokens[1]).ok THEN PolicyErr(Internal)
       ELSE PolicyOk(Policy("s3-fifo", parse_f64(tokens[1]).value, NoNum))

\* FromStr for PaperPolicy.
from_str(t) ==
    IF Len(t) = 1 /\ t[1].kind \in Units THEN PolicyOk(Policy(t[1].kind, NoNum, NoNum))
    ELSE IF starts_with(t, <<Word("2q"), Dash>>) THEN parse_two_q(t)
    ELSE IF starts_with(t, <<Word("s3"), Dash, Word("fifo"), Dash>>)
         THEN parse_s_three_fifo(t)
    ELSE PolicyErr(Internal)

\* PartialEq for f64 and, derived, for PaperPolicy.
f64_eq(x, y) ==
    /\ x.class # "NaN" /\ y.class # "NaN"
    /\ \/ x = y
       \/ x.class = "finite" /\ y.class = "finite" /\ x.mag = 0 /\ y.mag = 0
policy_eq(p, q) ==
    /\ p.variant = q.variant
    /\ p.variant \in {"2q", "s3-fifo"} => f64_eq(p.a, q.a)
    /\ p.variant = "2q" => f64_eq(p.b, q.b)

VARIABLES
    policy,   \* a PaperPolicy value
    text,     \* policy.to_string(), once rendered
    parsed    \* text.parse::<PaperPolicy>(), once parsed

policyVars == <<policy, text, parsed>>

NoText == <<>>
render ==
    /\ text = NoText
    /\ text' = fmt(policy)
    /\ UNCHANGED <<policy, parsed>>
parse ==
    /\ text # NoText /\ parsed = NoParsed
    /\ parsed' = from_str(text)
    /\ UNCHANGED <<policy, text>>
NoPolicies == policy = NoPolicy /\ text = NoText /\ parsed = NoParsed

\* ------------------------------------- command.rs, the body of a status reply
\* What follows a true flag in the reply to Status: the items the peer wrote,
\* in the order it wrote them.  Each read of parse_status_reader takes the next
\* item, and fails when the stream has ended before it.
Item(kind, v) == [kind |-> kind, v |-> v]
Status_new(pid, max_size, used_size, num_objects, rss, hwm, total_gets, total_sets, total_dels, miss_ratio, policies, current, is_auto_policy, uptime) ==
    [pid |-> pid, max_size |-> max_size, used_size |-> used_size,
     num_objects |-> num_objects, rss |-> rss, hwm |-> hwm,
     total_gets |-> total_gets, total_sets |-> total_sets, total_dels |-> total_dels,
     miss_ratio |-> miss_ratio, policies |-> policies, policy |-> current,
     is_auto_policy |-> is_auto_policy, uptime |-> uptime]
NoStatus == Status_new(0, 0, 0, 0, 0, 0, 0, 0, 0, 0, <<>>, NoPolicy, FALSE, 0)
StatusOk(st) == [ok |-> TRUE, value |-> st, err |-> NoError]
StatusErr(e) == [ok |-> FALSE, value |-> NoStatus, err |-> e]
NoDecoded == StatusErr(NoError)

\* `for _ in 0..num_policies`: n strings from item i on, each parsed as it is
\* read; the first string that is missing or does not parse ends the loop.
RECURSIVE read_policies(_, _, _)
read_policies(w, i, n) ==
    IF n = 0 THEN [ok |-> TRUE, policies |-> <<>>]
    ELSE IF i > Len(w) \/ ~from_str(w[i].v).ok THEN [ok |-> FALSE, policies |-> <<>>]
    ELSE LET rest == read_policies(w, i + 1, n - 1)
         IN IF rest.ok
            THEN [ok |-> TRUE, policies |-> <<from_str(w[i].v).value>> \o rest.policies]
            ELSE rest

\* parse_status_reader() giving a Status with uptime 0 when only the uptime
\* could not be read.
parse_status_body_partial(w) ==
    IF Len(w) < 11 THEN StatusErr(InvalidResponse)
    ELSE LET ps == read_policies(w, 12, w[11].v)
             j == 12 + w[11].v
         IN IF ~ps.ok THEN StatusErr(InvalidResponse)
            ELSE IF j > Len(w) \/ ~from_str(w[j].v).ok THEN StatusErr(InvalidResponse)
            ELSE IF j + 1 > Len(w) THEN StatusErr(InvalidResponse)
            ELSE StatusOk(Status_new(w[1].v, w[2].v, w[3].v, w[4].v, w[5].v, w[6].v,
                                     w[7].v, w[8].v, w[9].v, w[10].v, ps.policies,
                                     from_str(w[j].v).value, w[j + 1].v,
                                     IF j + 2 > Len(w) THEN 0 ELSE w[j + 2].v))

\* parse_status_reader(), the `if is_ok` branch: ten fixed fields, the count
\* and the list of policies, the current policy, the auto flag and the uptime,
\* every failure mapped to InvalidResponse by `?`.
parse_status_body(w) ==
    IF Len(w) < 11 THEN StatusErr(InvalidResponse)
    ELSE LET ps == read_policies(w, 12, w[11].v)
             j == 12 + w[11].v
         IN IF ~ps.ok THEN StatusErr(InvalidResponse)
            ELSE IF j > Len(w) \/ ~from_str(w[j].v).ok THEN StatusErr(InvalidResponse)
            ELSE IF j + 1 > Len(w) THEN StatusErr(InvalidResponse)
            ELSE IF j + 2 > Len(w) THEN StatusErr(InvalidResponse)
            ELSE StatusOk(Status_new(w[1].v, w[2].v, w[3].v, w[4].v, w[5].v, w[6].v,
                                     w[7].v, w[8].v, w[9].v, w[10].v, ps.policies,
                                     from_str(w[j].v).value, w[j + 1].v, w[j + 2].v))

\* The policy strings a peer may send: two that parse, one that is the text
\* of a policy and does not parse, and one that is no policy at all.
StatusTexts ==
    {fmt(Policy("lru", NoNum, NoNum)),
     fmt(Policy("2q", Num("finite", FALSE, 1), Num("finite", FALSE, 2))),
     fmt(Policy("s3-fifo", Num("finite", TRUE, 1), NoNum)),
     <<Word("bogus")>>}
\* The body of a status reply that lists Len(texts) - 1 policies, the last
\* text being the current policy.  Every number is the position of its item.
status_body(texts) ==
    <<Item("u32", 1), Item("u64", 2), Item("u64", 3), Item("u64", 4), Item("u64", 5),
      Item("u64", 6), Item("u64", 7), Item("u64", 8), Item("u64", 9), Item("f64", 10),
      Item("u32", Len(texts) - 1)>>
    \o [i \in 1 .. Len(texts) |-> Item("str", texts[i])]
    \o <<Item("bool", TRUE), Item("u64", 14)>>
\* Every such body, whole or cut short after any item.
StatusBodies ==
    UNION {{SubSeq(status_body(texts), 1, k) : k \in 0 .. Len(status_body(texts))} :
               texts \in UNION {[1 .. n + 1 -> StatusTexts] : n \in 0 .. MaxPolicies}}

VARIABLES
    body,     \* the body of a status reply
    decoded   \* parse_status_reader() of it, once decoded

statusVars == <<body, decoded>>

decode_status ==
    /\ decoded = NoDecoded
    /\ decoded' = parse_status_body(body)
    /\ UNCHANGED body
NoStatuses == body = <<>> /\ decoded = NoDecoded

\* --------------------------------------------- command.rs, encoding a command
\* A public call: the method and its arguments, ttl being an Option<u32>.
Some(x) == [some |-> TRUE, v |-> x]
NoneOption == [some |-> FALSE, v |-> 0]
unwrap_or(o, default) == IF o.some THEN o.v ELSE default
Request(method, token, key, value, ttl, size, p) ==
    [method |-> method, token |-> token, key |-> key, value |-> value, ttl |-> ttl,
     size |-> size, policy |-> p]
Requests ==
    {Request(m, None, None, None, NoneOption, 0, NoPolicy) :
         m \in {"ping", "version", "wipe", "status"}}
    \cup {Request("auth", t, None, None, NoneOption, 0, NoPolicy) : t \in Tokens}
    \cup {Request(m, None, "k", None, NoneOption, 0, NoPolicy) :
             m \in {"get", "del", "has", "peek", "size"}}
    \cup {Request("set", None, "k", v, t, 0, NoPolicy) :
             v \in Values, t \in {NoneOption} \cup {Some(n) : n \in 0 .. MaxTtl}}
    \cup {Request("ttl", None, "k", None, t, 0, NoPolicy) :
             t \in {NoneOption} \cup {Some(n) : n \in 0 .. MaxTtl}}
    \cup {Request("resize", None, None, None, NoneOption, n, NoPolicy) : n \in 0 .. MaxTtl}
    \cup {Request("policy", None, None, None, NoneOption, 0, p) : p \in PaperPolicy}
NoRequest == Request(None, None, None, None, NoneOption, 0, NoPolicy)

\* A Command with all the fields of its variant.
Command(op, token, key, value, ttl, size, p) ==
    [op |-> op, token |-> token, key |-> key, value |-> value, ttl |-> ttl,
     size |-> size, policy |-> p]
NoBuilt == Command(None, None, None, None, 0, 0, NoPolicy)

\* The Command each public method builds: set and ttl take `ttl.unwrap_or(0)`.
command_of(r) ==
    CASE r.method = "ping" -> Command("Ping", None, None, None, 0, 0, NoPolicy)
      [] r.method = "version" -> Command("Version", None, None, None, 0, 0, NoPolicy)
      [] r.method = "auth" -> Command("Auth", r.token, None, None, 0, 0, NoPolicy)
      [] r.method = "get" -> Command("Get", None, r.key, None, 0, 0, NoPolicy)
      [] r.method = "set" ->
             Command("Set", None, r.key, r.value, unwrap_or(r.ttl, 0), 0, NoPolicy)
      [] r.method = "del" -> Command("Del", None, r.key, None, 0, 0, NoPolicy)
      [] r.method = "has" -> Command("Has", None, r.key, None, 0, 0, NoPolicy)
      [] r.method = "peek" -> Command("Peek", None, r.key, None, 0, 0, NoPolicy)
      [] r.method = "ttl" -> Command("Ttl", None, r.key, None, unwrap_or(r.ttl, 0), 0, NoPolicy)
      [] r.method = "size" -> Command("Size", None, r.key, None, 0, 0, NoPolicy)
      [] r.method = "wipe" -> Command("Wipe", None, None, None, 0, 0, NoPolicy)
      [] r.method = "resize" -> Command("Resize", None, None, None, 0, r.size, NoPolicy)
      [] r.method = "policy" -> Command("Policy", None, None, None, 0, 0, r.policy)
      [] r.method = "status" -> Command("Status", None, None, None, 0, 0, NoPolicy)

\* The opcode constants of paper_utils::command::CommandByte, by name.
CommandByte(name) == name

\* to_sheet() writing the ttl of a Set before its value.
to_sheet_ttl_before_value(c) ==
    CASE c.op = "Ping" -> <<Item("u8", CommandByte("PING"))>>
      [] c.op = "Version" -> <<Item("u8", CommandByte("VERSION"))>>
      [] c.op = "Auth" -> <<Item("u8", CommandByte("AUTH")), Item("str", c.token)>>
      [] c.op = "Get" -> <<Item("u8", CommandByte("GET")), Item("str", c.key)>>
      [] c.op = "Set" -> <<Item("u8", CommandByte("SET")), Item("str", c.key), Item("u32", c.ttl), Item("buf", c.value)>>
      [] c.op = "Del" -> <<Item("u8", CommandByte("DEL")), Item("str", c.key)>>
      [] c.op = "Has" -> <<Item("u8", CommandByte("HAS")), Item("str", c.key)>>
      [] c.op = "Peek" -> <<Item("u8", CommandByte("PEEK")), Item("str", c.key)>>
      [] c.op = "Ttl" -> <<Item("u8", CommandByte("TTL")), Item("str", c.key), Item("u32", c.ttl)>>
      [] c.op = "Size" -> <<Item("u8", CommandByte("SIZE")), Item("str", c.key)>>
      [] c.op = "Wipe" -> <<Item("u8", CommandByte("WIPE"))>>
      [] c.op = "Resize" -> <<Item("u8", CommandByte("RESIZE")), Item("u64", c.size)>>
      [] c.op = "Policy" -> <<Item("u8", CommandByte("POLICY")), Item("str", fmt(c.policy))>>
      [] c.op = "Status" -> <<Item("u8", CommandByte("STATUS"))>>

\* to_sheet(): the opcode of the variant, then the fields of the variant.
to_sheet(c) ==
    CASE c.op = "Ping" -> <<Item("u8", CommandByte("PING"))>>
      [] c.op = "Version" -> <<Item("u8", CommandByte("VERSION"))>>
      [] c.op = "Auth" -> <<Item("u8", CommandByte("AUTH")), Item("str", c.token)>>
      [] c.op = "Get" -> <<Item("u8", CommandByte("GET")), Item("str", c.key)>>
      [] c.op = "Set" -> <<Item("u8", CommandByte("SET")), Item("str", c.key), Item("buf", c.value), Item("u32", c.ttl)>>
      [] c.op = "Del" -> <<Item("u8", CommandByte("DEL")), Item("str", c.key)>>
      [] c.op = "Has" -> <<Item("u8", CommandByte("HAS")), Item("str", c.key)>>
      [] c.op = "Peek" -> <<Item("u8", CommandByte("PEEK")), Item("str", c.key)>>
      [] c.op = "Ttl" -> <<Item("u8", CommandByte("TTL")), Item("str", c.key), Item("u32", c.ttl)>>
      [] c.op = "Size" -> <<Item("u8", CommandByte("SIZE")), Item("str", c.key)>>
      [] c.op = "Wipe" -> <<Item("u8", CommandByte("WIPE"))>>
      [] c.op = "Resize" -> <<Item("u8", CommandByte("RESIZE")), Item("u64", c.size)>>
      [] c.op = "Policy" -> <<Item("u8", CommandByte("POLICY")), Item("str", fmt(c.policy))>>
      [] c.op = "Status" -> <<Item("u8", CommandByte("STATUS"))>>

VARIABLES
    request,  \* a public call and its arguments
    built,    \* the Command the method builds from them
    sheet     \* to_sheet() of that Command: the items written, in order

sheetVars == <<request, built, sheet>>

NoSheet == <<>>
build ==
    /\ built = NoBuilt
    /\ built' = command_of(request)
    /\ UNCHANGED <<request, sheet>>
encode ==
    /\ built # NoBuilt /\ sheet = NoSheet
    /\ sheet' = to_sheet(built)
    /\ UNCHANGED <<request, built>>
NoSheets == request = NoRequest /\ built = NoBuilt /\ sheet = NoSheet

\* ----------------------------------------------- the reference cache server
\* The peer the claims about get, set and del assume: a key-value store that
\* reads the command off the wire and answers by the protocol, a true flag
\* and the payload, or a false flag and the error envelope (category 0, the
\* cache, with code 1, KeyNotFound).
Keys == {"k", "j"}
Empty == [k \in Keys |-> None]
KeyNotFoundFrame == Frame("false", None, 0, 1)
Accepted == Frame("true", None, EofCode, EofCode)
serve_reply(st, bytes) ==
    CASE bytes[1].v = "GET" ->
             IF st[bytes[2].v] = None THEN KeyNotFoundFrame
             ELSE Frame("true", st[bytes[2].v], EofCode, EofCode)
      [] bytes[1].v = "SET" -> Accepted
      [] bytes[1].v = "DEL" -> IF st[bytes[2].v] = None THEN KeyNotFoundFrame ELSE Accepted
serve_store(st, bytes) ==
    CASE bytes[1].v = "GET" -> st
      [] bytes[1].v = "SET" -> [st EXCEPT ![bytes[2].v] = bytes[3].v]
      [] bytes[1].v = "DEL" -> [st EXCEPT ![bytes[2].v] = None]

VARIABLES
    store,    \* the server's store: per key its value, or None
    reply,    \* the reply the server wrote to the last command it read
    log       \* history: the public calls that returned, each with its result

serverVars == <<store, reply, log>>
NoServer == store = <<>> /\ reply = NoFrame /\ log = <<>>

codecVars == <<policyVars, statusVars, sheetVars, serverVars>>
NoCodec == NoPolicies /\ NoStatuses /\ NoSheets /\ NoServer

\* ------------------------------------------- paper_client.rs, async_client.rs
VARIABLES
    active,              \* the clients of this run: one variant, or both in lockstep
    auth_token,          \* PaperClient.auth_token: None or the stored token
    reconnect_attempts,  \* PaperClient.reconnect_attempts (u8)
    stream,              \* PaperClient.stream: the transport currently installed
    pc,                  \* where the client is: init_stream, handshake, idle, send, receive, done, failed,
                         \* overflow (at `reconnect_attempts += 1` with the counter at 255), panicked
    stack,               \* the commands of the active process() frames, outermost first
    command,             \* the command of the current public call
    result,              \* what the last public call (or new()) returned
    calls,               \* history: public calls started on this client
    sends,               \* history: writes of the call's own command in this call
    dials,               \* history: transports established in this call (or in new())
    reconnected,         \* history: reconnect() calls of frame 1 that returned Ok in this call
    irs,                 \* history: decodes of the call's own command that gave InvalidResponse
    handshakes,          \* history: handshakes run in this call (or in new())
    last,                \* history: the most recent wire action and its outcome
    last_auth            \* history: token and outcome of the last public auth() that returned

clientVars == <<active, auth_token, reconnect_attempts, stream, pc, stack, command,
                result, calls, sends, dials, reconnected, irs, handshakes, last,
                last_auth>>

\* A transport: hs is the outcome of its handshake, written whether a command
\* was written to it, replay the token whose replayed Auth it accepted, old
\* whether it was dialed before the current public call, and stale whether a
\* decode of a reply read from it has failed with InvalidResponse.
NoStream ==
    [hs |-> "none", written |-> FALSE, replay |-> None, old |-> FALSE, stale |-> FALSE]
NoAction == [op |-> None, depth |-> 0, cmd |-> NoCommand, out |-> None, frame |-> NoFrame]
NoAuth == [token |-> None, ok |-> FALSE]
Action(op, depth, cmd, out, frame) ==
    [op |-> op, depth |-> depth, cmd |-> cmd, out |-> out, frame |-> frame]

\* The state of client c as one record; the operators below map such a record
\* to the record after one step of the code.
Cur(c) ==
    [auth_token |-> auth_token[c], reconnect_attempts |-> reconnect_attempts[c],
     stream |-> stream[c], pc |-> pc[c], stack |-> stack[c], command |-> command[c],
     result |-> result[c], calls |-> calls[c], sends |-> sends[c], dials |-> dials[c],
     reconnected |-> reconnected[c], irs |-> irs[c], handshakes |-> handshakes[c],
     last |-> last[c], last_auth |-> last_auth[c]]

Fresh ==
    [auth_token |-> None, reconnect_attempts |-> 0,
     stream |-> NoStream, pc |-> "init_stream", stack |-> <<>>, command |-> NoCommand,
     result |-> NoResult, calls |-> 0, sends |-> 0, dials |-> 0,
     reconnected |-> 0, irs |-> 0, handshakes |-> 0, last |-> NoAction,
     last_auth |-> NoAuth]

Depth(s) == Len(s.stack)
Top(s) == s.stack[Len(s.stack)]

\* auth() stores its token when process() has returned, Ok or Err: unwinding
\* the frames from the innermost out, every Auth frame assigns the token.
RECURSIVE auth_store(_, _)
auth_store(frames, token) ==
    IF frames = <<>> THEN token
    ELSE LET top == frames[Len(frames)]
         IN auth_store(SubSeq(frames, 1, Len(frames) - 1),
                       IF top.op = "Auth" THEN top.arg ELSE token)

\* History only: a public auth(token) has returned, with success or not.
returned(s, ok) ==
    IF s.command.op = "Auth"
    THEN [s EXCEPT !.last_auth = [token |-> s.command.arg, ok |-> ok]]
    ELSE s

\* An error that leaves process(), with auth() storing its token only on Ok.
return_err_keeps_token(s, e) ==
    IF Depth(s) = 0
    THEN [s EXCEPT !.pc = "failed", !.result = Err(e)]
    ELSE [returned(s, FALSE) EXCEPT !.pc = "done", !.result = Err(e), !.stack = <<>>]

\* An error that leaves process(): every caller up the stack propagates it
\* (`?` in reconnect, `err => err` in process), so the public call returns it.
\* With no frame the error leaves new(), and no client is returned.
return_err(s, e) ==
    IF Depth(s) = 0
    THEN [s EXCEPT !.pc = "failed", !.result = Err(e)]
    ELSE [returned(s, FALSE) EXCEPT
                   !.pc = "done", !.result = Err(e), !.stack = <<>>,
                   !.auth_token = auth_store(s.stack, s.auth_token)]

\* reconnect(): the ceiling check that precedes the dial.
reconnect(s) ==
    IF s.reconnect_attempts > RECONNECT_MAX_ATTEMPTS
    THEN return_err(s, Disconnected)
    ELSE [s EXCEPT !.pc = "init_stream"]

\* process(), the Err arms, reconnecting on every error.
process_err_retries_all(s, e) ==
    reconnect([s EXCEPT !.reconnect_attempts = (s.reconnect_attempts + 1) % U8])

\* `reconnect_attempts += 1` with the counter at 255, built with overflow
\* checks (the dev profile): the thread panics.
overflow_panic(s) == [s EXCEPT !.pc = "panicked"]

\* `reconnect_attempts += 1` with the counter at 255, built without overflow
\* checks (the release profile): the u8 wraps to 0, and process() goes on to
\* reconnect().
overflow_wrap(s) ==
    reconnect([s EXCEPT !.reconnect_attempts = (s.reconnect_attempts + 1) % U8])

\* process(), the Err arms: InvalidResponse counts an attempt and reconnects,
\* every other error is returned.  The counter is a u8: at 255 what `+= 1`
\* does depends on how the crate was built.
process_err(s, e) ==
    IF e = InvalidResponse
    THEN IF s.reconnect_attempts = U8 - 1
         THEN [s EXCEPT !.pc = "overflow"]
         ELSE reconnect([s EXCEPT !.reconnect_attempts = s.reconnect_attempts + 1])
    ELSE return_err(s, e)

\* process(), the Ok arm without the reset of the counter.
process_ok_keeps_attempts(s, v) ==
    IF Depth(s) = 1
    THEN [returned(s, TRUE) EXCEPT
                   !.pc = "done", !.result = Ok(v), !.stack = <<>>,
                   !.auth_token = auth_store(s.stack, s.auth_token)]
    ELSE [s EXCEPT !.pc = "send",
                   !.stack = SubSeq(s.stack, 1, Depth(s) - 1),
                   !.auth_token = Top(s).arg,
                   !.stream.replay = Top(s).arg,
                   !.reconnected = IF Depth(s) = 2 THEN @ + 1 ELSE @]

\* process(), the Ok arm.  Frame 1 returns to the caller of the public method;
\* a deeper frame returns to auth() and reconnect(), whose process() then
\* calls itself again with the same command.
process_ok(s, v) ==
    LET t == [s EXCEPT !.reconnect_attempts = 0]
    IN IF Depth(s) = 1
       THEN [returned(t, TRUE) EXCEPT
                      !.pc = "done", !.result = Ok(v), !.stack = <<>>,
                      !.auth_token = auth_store(s.stack, s.auth_token)]
       ELSE [t EXCEPT !.pc = "send",
                      !.stack = SubSeq(s.stack, 1, Depth(s) - 1),
                      !.auth_token = Top(s).arg,
                      !.stream.replay = Top(s).arg,
                      !.reconnected = IF Depth(s) = 2 THEN @ + 1 ELSE @]

\* send(): the StreamError of the write becomes the client's error.
send(o) ==
    CASE o = "Ok" -> Ok("unit")
      [] o = "InvalidStream" -> Err(Disconnected)
      [] OTHER -> Err(InvalidCommand)
SendOutcomes == {"Ok", "InvalidStream", "OtherStreamError"}

\* process(), the write.  Blocking: send(..).and_then(receive) skips the read
\* when the write failed and matches on the write error.  Async: the write
\* error is looked at only for InvalidResponse, then the read runs.
process_send(variant, s, o) ==
    LET r == send(o)
        t == [s EXCEPT !.sends = IF Depth(s) = 1 THEN @ + 1 ELSE @,
                       !.stream.written = TRUE,
                       !.last = Action("send", Depth(s), Top(s), o, NoFrame)]
    IN IF variant = "blocking"
       THEN IF r.ok THEN [t EXCEPT !.pc = "receive"] ELSE process_err(t, r.err)
       ELSE IF ~r.ok /\ r.err = InvalidResponse
            THEN process_err(t, r.err)
            ELSE [t EXCEPT !.pc = "receive"]

\* process(), the read and the match on its result.
process_receive(s, f) ==
    LET r == receive(Top(s), f)
        t == [s EXCEPT !.last = Action("receive", Depth(s), Top(s), None, f),
                       !.irs = IF Depth(s) = 1 /\ ~r.ok /\ r.err = InvalidResponse
                               THEN @ + 1 ELSE @,
                       !.stream.stale = @ \/ (~r.ok /\ r.err = InvalidResponse)]
    IN IF r.ok THEN process_ok(t, r.value) ELSE process_err(t, r.err)

\* init_stream(): connect, then set_nodelay.
init_stream(o) ==
    CASE o = "Ok" -> Ok("stream")
      [] o = "ConnectFailed" -> Err(UnreachableServer)
      [] OTHER -> Err(Internal)
ConnectOutcomes == {"Ok", "ConnectFailed", "NodelayFailed"}

\* reconnect() dialing again when the dial has failed.
connect_redials(s, o) ==
    LET r == init_stream(o)
        t == [s EXCEPT !.last = Action("connect", Depth(s), NoCommand, o, NoFrame)]
    IN IF r.ok
       THEN [t EXCEPT !.pc = "handshake",
                      !.dials = @ + 1,
                      !.stream = NoStream]
       ELSE IF Depth(s) = 0 THEN return_err(t, r.err)
       ELSE reconnect([t EXCEPT !.reconnect_attempts = @ + 1])

\* reconnect() building the client anew, as new() does: the stored token is
\* dropped with the old transport.
connect_forgets_token(s, o) ==
    LET r == init_stream(o)
        t == [s EXCEPT !.last = Action("connect", Depth(s), NoCommand, o, NoFrame)]
    IN IF r.ok
       THEN [t EXCEPT !.pc = "handshake",
                      !.dials = @ + 1,
                      !.stream = NoStream,
                      !.auth_token = None]
       ELSE return_err(t, r.err)

\* new() and reconnect(): `stream = init_stream(addr)?`.
connect(s, o) ==
    LET r == init_stream(o)
        t == [s EXCEPT !.last = Action("connect", Depth(s), NoCommand, o, NoFrame)]
    IN IF r.ok
       THEN [t EXCEPT !.pc = "handshake",
                      !.dials = @ + 1,
                      !.stream = NoStream]
       ELSE return_err(t, r.err)

\* handshake() that takes any boolean it could read for acceptance.
handshake_ignores_flag(f) ==
    IF f.flag = "eof" THEN Err(UnreachableServer) ELSE Ok("unit")

\* handshake(): one leading boolean, then the error envelope when it is false.
handshake(f) ==
    IF f.flag = "eof" THEN Err(UnreachableServer)
    ELSE IF f.flag = "true" THEN Ok("unit")
    ELSE Err(from_reader(f))

\* reconnect() after the dial, without the replay of the stored token.
after_connect_no_replay(s, f) ==
    LET r == handshake(f)
        t == [s EXCEPT !.last = Action("handshake", Depth(s), NoCommand, None, f),
                       !.handshakes = @ + 1,
                       !.stream.hs = IF f.flag = "true" THEN "ok"
                                     ELSE IF f.flag = "eof" THEN "unreadable"
                                     ELSE "rejected"]
    IN IF ~r.ok THEN return_err(t, r.err)
       ELSE IF Depth(s) = 0 THEN [t EXCEPT !.pc = "idle"]
       ELSE [t EXCEPT !.pc = "send", !.reconnected = IF Depth(s) = 1 THEN @ + 1 ELSE @]

\* new() and reconnect() after the dial: the handshake, then in reconnect()
\* the replay of the stored token through auth(), then back to process().
after_connect(s, f) ==
    LET r == handshake(f)
        t == [s EXCEPT !.last = Action("handshake", Depth(s), NoCommand, None, f),
                       !.handshakes = @ + 1,
                       !.stream.hs = IF f.flag = "true" THEN "ok"
                                     ELSE IF f.flag = "eof" THEN "unreadable"
                                     ELSE "rejected"]
    IN IF ~r.ok THEN return_err(t, r.err)
       ELSE IF Depth(s) = 0 THEN [t EXCEPT !.pc = "idle"]
       ELSE IF s.auth_token # None
            THEN [t EXCEPT !.pc = "send", !.stack = Append(@, Auth(s.auth_token))]
            ELSE [t EXCEPT !.pc = "send",
                           !.reconnected = IF Depth(s) = 1 THEN @ + 1 ELSE @]

\* auth(token) storing its token before it enters process().
call_stores_first(s, cmd) ==
    [s EXCEPT !.pc = "send", !.stack = <<cmd>>, !.command = cmd, !.result = NoResult,
              !.calls = @ + 1, !.sends = 0, !.dials = 0, !.reconnected = 0, !.irs = 0,
              !.handshakes = 0, !.stream.old = TRUE, !.last = NoAction,
              !.auth_token = IF cmd.op = "Auth" THEN cmd.arg ELSE @]

\* A public method: auth(token) and get(key) build the command and enter process().
call(s, cmd) ==
    [s EXCEPT !.pc = "send", !.stack = <<cmd>>, !.command = cmd, !.result = NoResult,
              !.calls = @ + 1, !.sends = 0, !.dials = 0, !.reconnected = 0, !.irs = 0,
              !.handshakes = 0, !.stream.old = TRUE, !.last = NoAction]

\* A value whose conversion `value.try_into()` to PaperValue fails.
Unconvertible == "unconvertible"
Set(k) == [op |-> "Set", arg |-> k]
try_into(value) == IF value = Unconvertible THEN Err(InvalidValue) ELSE Ok(value)

\* set() converting the value only after the command byte and the key have
\* been written.
set_converts_late(s, key, value) ==
    IF ~try_into(value).ok
    THEN [s EXCEPT !.pc = "done", !.command = NoCommand, !.result = Err(InvalidValue),
                   !.calls = @ + 1, !.sends = 1, !.dials = 0, !.reconnected = 0,
                   !.irs = 0, !.handshakes = 0, !.stream.written = TRUE,
                   !.last = Action("try_into", 0, NoCommand, value, NoFrame)]
    ELSE call(s, Set(key))

\* set(key, value, ttl): `value.try_into().map_err(|_| InvalidValue)?` comes
\* first and returns before a command exists; otherwise the Set command is
\* built and enters process().
set(s, key, value) ==
    IF ~try_into(value).ok
    THEN [s EXCEPT !.pc = "done", !.command = NoCommand, !.result = Err(InvalidValue),
                   !.calls = @ + 1, !.sends = 0, !.dials = 0, !.reconnected = 0,
                   !.irs = 0, !.handshakes = 0,
                   !.last = Action("try_into", 0, NoCommand, value, NoFrame)]
    ELSE call(s, Set(key))

\* ------------------------------------------------------ pool.rs, async_pool.rs
VARIABLES
    size,        \* PaperPool.clients.len(); 0 while no pool exists
    index,       \* PaperPool.index, the shared AtomicUsize
    owner,       \* per slot: the caller holding its Mutex guard, or None
    tpc,         \* per caller: idle, loaded (inside get_index), locking, holding, calling
    local,       \* per caller: the `index` local of get_index
    selections,  \* history: client() calls started
    visits,      \* history: the slots handed out, in the order client() returned
    kind,        \* the variant of the pool's clients (PaperPool, AsyncPaperPool)
    ptoken,      \* the token argument of the running (or last) pool auth()
    presult,     \* what new() or the last pool auth() returned
    tokens0,     \* history: every slot's stored token when the last pool auth() began
    auths        \* history: pool auth() calls started

authVars == <<kind, ptoken, presult, tokens0, auths>>
poolVars == <<size, index, owner, tpc, local, selections, visits, authVars>>

\* get_index(): `let index = self.index.load(Relaxed)`.
get_index_load(t) ==
    /\ tpc[t] = "idle"
    /\ selections < MaxPoolCalls
    /\ local' = [local EXCEPT ![t] = index]
    /\ tpc' = [tpc EXCEPT ![t] = "loaded"]
    /\ selections' = selections + 1
    /\ UNCHANGED <<size, index, owner, visits>>
    /\ UNCHANGED authVars

\* get_index() storing the index it loaded, without the increment.
get_index_store_no_advance(t) ==
    /\ tpc[t] = "loaded"
    /\ index' = local[t] % size
    /\ tpc' = [tpc EXCEPT ![t] = "locking"]
    /\ UNCHANGED <<size, owner, local, selections, visits>>
    /\ UNCHANGED authVars

\* get_index() storing index + 1 without the reduction modulo the pool's size.
get_index_store_no_modulo(t) ==
    /\ tpc[t] = "loaded"
    /\ index' = local[t] + 1
    /\ tpc' = [tpc EXCEPT ![t] = "locking"]
    /\ UNCHANGED <<size, owner, local, selections, visits>>
    /\ UNCHANGED authVars

\* get_index(): `self.index.store((index + 1) % self.clients.len(), Relaxed)`,
\* then the slot `index` is what client() goes on to lock.
get_index_store(t) ==
    /\ tpc[t] = "loaded"
    /\ index' = (local[t] + 1) % size
    /\ tpc' = [tpc EXCEPT ![t] = "locking"]
    /\ UNCHANGED <<size, owner, local, selections, visits>>
    /\ UNCHANGED authVars

\* client() returning the guard at once, whoever holds the slot.
client_lock_no_wait(t) ==
    /\ tpc[t] = "locking"
    /\ owner' = [owner EXCEPT ![local[t]] = t]
    /\ tpc' = [tpc EXCEPT ![t] = "holding"]
    /\ visits' = Append(visits, local[t])
    /\ UNCHANGED <<size, index, local, selections>>
    /\ UNCHANGED authVars

\* client(): `self.clients[index].lock()` returns the guard once the slot is free.
client_lock(t) ==
    /\ tpc[t] = "locking"
    /\ owner[local[t]] = None
    /\ owner' = [owner EXCEPT ![local[t]] = t]
    /\ tpc' = [tpc EXCEPT ![t] = "holding"]
    /\ visits' = Append(visits, local[t])
    /\ UNCHANGED <<size, index, local, selections>>
    /\ UNCHANGED authVars

\* The caller invokes a method of the client behind its guard (`&mut self`
\* through the guard): the command is in flight until the method returns.
guard_call(t) ==
    /\ tpc[t] = "holding"
    /\ tpc' = [tpc EXCEPT ![t] = "calling"]
    /\ UNCHANGED <<size, index, owner, local, selections, visits>>
    /\ UNCHANGED authVars

\* The method returns, after all of its reconnect retries.
guard_return(t) ==
    /\ tpc[t] = "calling"
    /\ tpc' = [tpc EXCEPT ![t] = "holding"]
    /\ UNCHANGED <<size, index, owner, local, selections, visits>>
    /\ UNCHANGED authVars

\* The caller drops the guard.
guard_drop(t) ==
    /\ tpc[t] = "holding"
    /\ owner' = [owner EXCEPT ![local[t]] = None]
    /\ tpc' = [tpc EXCEPT ![t] = "idle"]
    /\ UNCHANGED <<size, index, local, selections, visits>>
    /\ UNCHANGED authVars

\* PaperPool::new(addr, size) with size > 0 returned a pool.
PoolInit ==
    /\ size \in 1 .. MaxPoolSize
    /\ index = 0
    /\ owner = [i \in 0 .. size - 1 |-> None]
    /\ tpc = [t \in Callers |-> "idle"]
    /\ local = [t \in Callers |-> 0]
    /\ selections = 0
    /\ visits = <<>>
    /\ kind = None
    /\ ptoken = None
    /\ presult = NoResult
    /\ tokens0 = <<>>
    /\ auths = 0

NoPool ==
    /\ size = 0
    /\ index = 0
    /\ owner = <<>>
    /\ tpc = [t \in Callers |-> "idle"]
    /\ local = [t \in Callers |-> 0]
    /\ selections = 0
    /\ visits = <<>>
    /\ kind = None
    /\ ptoken = None
    /\ presult = NoResult
    /\ tokens0 = <<>>
    /\ auths = 0

\* ------------------------------------------------------------ the actions
\* With both variants active they are driven in lockstep: the same call and
\* the same outcome of every wire operation, for as long as they agree.
InSync == \A c, d \in active : Cur(c) = Cur(d)
Ready(k) == InSync /\ \A c \in active : pc[c] = k
One == CHOOSE c \in active : TRUE

Moved(new) ==
    /\ auth_token' = [c \in active |-> new[c].auth_token]
    /\ reconnect_attempts' = [c \in active |-> new[c].reconnect_attempts]
    /\ stream' = [c \in active |-> new[c].stream]
    /\ pc' = [c \in active |-> new[c].pc]
    /\ stack' = [c \in active |-> new[c].stack]
    /\ command' = [c \in active |-> new[c].command]
    /\ result' = [c \in active |-> new[c].result]
    /\ calls' = [c \in active |-> new[c].calls]
    /\ sends' = [c \in active |-> new[c].sends]
    /\ dials' = [c \in active |-> new[c].dials]
    /\ reconnected' = [c \in active |-> new[c].reconnected]
    /\ irs' = [c \in active |-> new[c].irs]
    /\ handshakes' = [c \in active |-> new[c].handshakes]
    /\ last' = [c \in active |-> new[c].last]
    /\ last_auth' = [c \in active |-> new[c].last_auth]
    /\ UNCHANGED active

Clients(new) == Moved(new) /\ UNCHANGED codecVars

Install(new) == Clients(new) /\ UNCHANGED poolVars

FreshClients ==
    /\ auth_token = [c \in active |-> Fresh.auth_token]
    /\ reconnect_attempts = [c \in active |-> Fresh.reconnect_attempts]
    /\ stream = [c \in active |-> Fresh.stream]
    /\ pc = [c \in active |-> Fresh.pc]
    /\ stack = [c \in active |-> Fresh.stack]
    /\ command = [c \in active |-> Fresh.command]
    /\ result = [c \in active |-> Fresh.result]
    /\ calls = [c \in active |-> Fresh.calls]
    /\ sends = [c \in active |-> Fresh.sends]
    /\ dials = [c \in active |-> Fresh.dials]
    /\ reconnected = [c \in active |-> Fresh.reconnected]
    /\ irs = [c \in active |-> Fresh.irs]
    /\ handshakes = [c \in active |-> Fresh.handshakes]
    /\ last = [c \in active |-> Fresh.last]
    /\ last_auth = [c \in active |-> Fresh.last_auth]

ClientInit ==
    /\ active \in {{"blocking"}, {"async"}, Variants}
    /\ FreshClients

\* Every client of the run is in state s.
Clients0(s) ==
    /\ auth_token = [c \in active |-> s.auth_token]
    /\ reconnect_attempts = [c \in active |-> s.reconnect_attempts]
    /\ stream = [c \in active |-> s.stream]
    /\ pc = [c \in active |-> s.pc]
    /\ stack = [c \in active |-> s.stack]
    /\ command = [c \in active |-> s.command]
    /\ result = [c \in active |-> s.result]
    /\ calls = [c \in active |-> s.calls]
    /\ sends = [c \in active |-> s.sends]
    /\ dials = [c \in active |-> s.dials]
    /\ reconnected = [c \in active |-> s.reconnected]
    /\ irs = [c \in active |-> s.irs]
    /\ handshakes = [c \in active |-> s.handshakes]
    /\ last = [c \in active |-> s.last]
    /\ last_auth = [c \in active |-> s.last_auth]

\* new() or reconnect() dials.
Connect ==
    /\ Ready("init_stream")
    /\ dials[One] < MaxDials
    /\ \E o \in ConnectOutcomes : Install([c \in active |-> connect(Cur(c), o)])

\* new() or reconnect() reads the handshake.
Handshake ==
    /\ Ready("handshake")
    /\ \E f \in UnitFrames : Install([c \in active |-> after_connect(Cur(c), f)])

\* The caller invokes a public method on a constructed client.
Call ==
    /\ InSync
    /\ \A c \in active : pc[c] \in {"idle", "done"} /\ calls[c] < MaxCalls
    /\ \E cmd \in Commands : Install([c \in active |-> call(Cur(c), cmd)])

\* process() writes the command of its frame.
Send ==
    /\ Ready("send")
    /\ \E o \in SendOutcomes : Install([c \in active |-> process_send(c, Cur(c), o)])

\* process() reads and decodes the response.
Receive ==
    /\ Ready("receive")
    /\ \E f \in Frames(Top(Cur(One))) :
          Install([c \in active |-> process_receive(Cur(c), f)])

NoClient ==
    /\ active = {}
    /\ auth_token = <<>>
    /\ reconnect_attempts = <<>>
    /\ stream = <<>>
    /\ pc = <<>>
    /\ stack = <<>>
    /\ command = <<>>
    /\ result = <<>>
    /\ calls = <<>>
    /\ sends = <<>>
    /\ dials = <<>>
    /\ reconnected = <<>>
    /\ irs = <<>>
    /\ handshakes = <<>>
    /\ last = <<>>
    /\ last_auth = <<>>

vars == <<clientVars, poolVars, codecVars>>

\* One client, of either variant, or both variants in lockstep.
Init == ClientInit /\ NoPool /\ NoCodec
Next == Connect \/ Handshake \/ Call \/ Send \/ Receive
Spec == Init /\ [][Next]_vars

\* A pool whose callers make their client() calls one after another: a call
\* starts only when no other caller is inside client().
Sequential(t) == \A u \in Callers \ {t} : tpc[u] \in {"idle", "holding", "calling"}
SeqLoad == \E t \in Callers : Sequential(t) /\ get_index_load(t) /\ UNCHANGED <<clientVars, codecVars>>
Store == \E t \in Callers : get_index_store(t) /\ UNCHANGED <<clientVars, codecVars>>
Lock == \E t \in Callers : client_lock(t) /\ UNCHANGED <<clientVars, codecVars>>
Use == \E t \in Callers : guard_call(t) /\ UNCHANGED <<clientVars, codecVars>>
Return == \E t \in Callers : guard_return(t) /\ UNCHANGED <<clientVars, codecVars>>
Drop == \E t \in Callers : guard_drop(t) /\ UNCHANGED <<clientVars, codecVars>>
SeqPoolInit == PoolInit /\ NoClient /\ NoCodec
SeqPoolNext == SeqLoad \/ Store \/ Lock \/ Use \/ Return \/ Drop
SeqPoolSpec == SeqPoolInit /\ [][SeqPoolNext]_vars

\* A pool shared by concurrent callers: their client() calls interleave freely.
Load == \E t \in Callers : get_index_load(t) /\ UNCHANGED <<clientVars, codecVars>>
PoolNext == Load \/ Store \/ Lock \/ Use \/ Return \/ Drop
PoolSpec == SeqPoolInit /\ [][PoolNext]_vars

\* ------------------------------------------------- a pool that runs for ever
\* Callers make client() and auth() calls on one pool without end; the history
\* of the calls (selections, visits, auths) is not recorded, so that a run can
\* go on for ever.  A caller follows the release discipline: it is inside
\* client() or auth() only while it holds no guard.

\* get_index(): `let index = self.index.load(Relaxed)`.
index_load(t) ==
    /\ tpc[t] = "idle"
    /\ local' = [local EXCEPT ![t] = index]
    /\ tpc' = [tpc EXCEPT ![t] = "loaded"]
    /\ UNCHANGED <<size, index, owner, selections, visits>>
    /\ UNCHANGED authVars

\* client(): `self.clients[index].lock()` returns the guard once the slot is free.
lock(t) ==
    /\ tpc[t] = "locking"
    /\ owner[local[t]] = None
    /\ owner' = [owner EXCEPT ![local[t]] = t]
    /\ tpc' = [tpc EXCEPT ![t] = "holding"]
    /\ UNCHANGED <<size, index, local, selections, visits>>
    /\ UNCHANGED authVars

\* auth(token) is entered by caller t: `for client in self.clients.iter()`
\* starts at slot 0.
auth_enter(t) ==
    /\ tpc[t] = "idle"
    /\ local' = [local EXCEPT ![t] = 0]
    /\ tpc' = [tpc EXCEPT ![t] = "auth"]
    /\ UNCHANGED <<size, index, owner, selections, visits>>
    /\ UNCHANGED authVars

\* auth(): `client.lock().expect(..)` returns the guard of the slot once it
\* is free.
auth_lock(t) ==
    /\ tpc[t] = "auth"
    /\ owner[local[t]] = None
    /\ owner' = [owner EXCEPT ![local[t]] = t]
    /\ tpc' = [tpc EXCEPT ![t] = "authing"]
    /\ UNCHANGED <<size, index, local, selections, visits>>
    /\ UNCHANGED authVars

\* auth() keeping the guard of every slot it has authorised until it returns.
auth_next_keeps_guards(t, ok) ==
    /\ tpc[t] = "authing"
    /\ IF ~ok \/ local[t] + 1 = size
       THEN /\ tpc' = [tpc EXCEPT ![t] = "idle"]
            /\ owner' = [i \in 0 .. size - 1 |-> IF owner[i] = t THEN None ELSE owner[i]]
            /\ UNCHANGED local
       ELSE /\ tpc' = [tpc EXCEPT ![t] = "auth"]
            /\ local' = [local EXCEPT ![t] = local[t] + 1]
            /\ UNCHANGED owner
    /\ UNCHANGED <<size, index, selections, visits>>
    /\ UNCHANGED authVars

\* auth(): `.auth(token)?` of the slot's client has returned ok or an error and
\* the temporary guard is dropped at the end of the statement; an error leaves
\* auth(), otherwise the loop goes on to the next slot or returns Ok(()).
auth_next(t, ok) ==
    /\ tpc[t] = "authing"
    /\ owner' = [owner EXCEPT ![local[t]] = None]
    /\ IF ~ok \/ local[t] + 1 = size
       THEN /\ tpc' = [tpc EXCEPT ![t] = "idle"]
            /\ UNCHANGED local
       ELSE /\ tpc' = [tpc EXCEPT ![t] = "auth"]
            /\ local' = [local EXCEPT ![t] = local[t] + 1]
    /\ UNCHANGED <<size, index, selections, visits>>
    /\ UNCHANGED authVars

FairLoad(t) == index_load(t) /\ UNCHANGED <<clientVars, codecVars>>
FairStore(t) == get_index_store(t) /\ UNCHANGED <<clientVars, codecVars>>
FairLock(t) == lock(t) /\ UNCHANGED <<clientVars, codecVars>>
FairUse(t) == guard_call(t) /\ UNCHANGED <<clientVars, codecVars>>
FairReturn(t) == guard_return(t) /\ UNCHANGED <<clientVars, codecVars>>
FairDrop(t) == guard_drop(t) /\ UNCHANGED <<clientVars, codecVars>>
FairAuthEnter(t) == auth_enter(t) /\ UNCHANGED <<clientVars, codecVars>>
FairAuthLock(t) == auth_lock(t) /\ UNCHANGED <<clientVars, codecVars>>
FairAuthNext(t) == \E ok \in BOOLEAN : auth_next(t, ok) /\ UNCHANGED <<clientVars, codecVars>>

FairPoolNext ==
    \E t \in Callers :
        \/ FairLoad(t) \/ FairStore(t) \/ FairLock(t)
        \/ FairUse(t) \/ FairReturn(t) \/ FairDrop(t)
        \/ FairAuthEnter(t) \/ FairAuthLock(t) \/ FairAuthNext(t)

\* The scheduling: a caller inside get_index() goes on; a lock() that is free
\* again and again is granted in the end; a method called through a guard and
\* the auth of a slot's client return; a caller that holds a guard drops it
\* after finitely many calls.  Nothing makes a caller start a call.
FairPoolSpec ==
    /\ SeqPoolInit /\ [][FairPoolNext]_vars
    /\ \A t \in Callers :
          /\ WF_vars(FairStore(t))
          /\ SF_vars(FairLock(t))
          /\ WF_vars(FairReturn(t))
          /\ SF_vars(FairDrop(t))
          /\ SF_vars(FairAuthLock(t))
          /\ WF_vars(FairAuthNext(t))

\* ------------------------------------------- a pool together with its clients
\* One caller (the driver) builds a pool with new(), then calls pool.auth()
\* and client(); every slot is a client of the pool's variant, and the client
\* of the slot the driver works on takes the steps of its call.
Driver == "a"
Slot == local[Driver]
Curs == [c \in active |-> Cur(c)]
\* One client shared by every slot: a step of the client of slot c is seen in
\* every slot.
At_shared(c, s) == Clients([d \in active |-> s])
\* Every slot holds a client of its own (clients: [Mutex<PaperClient>], each
\* built by its own PaperClient::new): a step of the client of slot c changes
\* that client only.
At(c, s) == Clients([Curs EXCEPT ![c] = s])

\* History only: when a guard is dropped or the next pool operation starts, what every client
\* recorded about its earlier calls and about its transport is forgotten; the
\* stored token and the counter stay, and the transport is an old one.
settle(s) ==
    [s EXCEPT !.pc = "idle", !.command = NoCommand, !.result = NoResult,
              !.calls = 0, !.sends = 0, !.dials = 0, !.reconnected = 0, !.irs = 0,
              !.handshakes = 0, !.last = NoAction,
              !.stream = [NoStream EXCEPT !.old = TRUE]]
Settled == Clients([c \in active |-> settle(Cur(c))])

\* PaperPool::new pushing every client, the failed one included.
pool_new_next_keeps_failed ==
    /\ tpc[Driver] = "new"
    /\ pc[Slot] \in {"idle", "failed"}
    /\ IF Slot + 1 = size
       THEN /\ tpc' = [tpc EXCEPT ![Driver] = "idle"]
            /\ presult' = Ok("pool")
            /\ local' = [local EXCEPT ![Driver] = 0]
       ELSE /\ local' = [local EXCEPT ![Driver] = Slot + 1]
            /\ UNCHANGED <<tpc, presult>>
    /\ UNCHANGED <<size, index, owner, selections, visits, kind, ptoken, tokens0, auths>>

\* PaperPool::new, the loop `for _ in 0..size { let client = PaperClient::new(..)?;
\* clients.push(..) }`: the error of a client leaves new(), the last push
\* returns the pool.
pool_new_next ==
    /\ tpc[Driver] = "new"
    /\ pc[Slot] \in {"idle", "failed"}
    /\ IF pc[Slot] = "failed"
       THEN /\ tpc' = [tpc EXCEPT ![Driver] = "failed"]
            /\ presult' = Err(result[Slot].err)
            /\ UNCHANGED local
       ELSE IF Slot + 1 = size
            THEN /\ tpc' = [tpc EXCEPT ![Driver] = "idle"]
                 /\ presult' = Ok("pool")
                 /\ local' = [local EXCEPT ![Driver] = 0]
            ELSE /\ local' = [local EXCEPT ![Driver] = Slot + 1]
                 /\ UNCHANGED <<tpc, presult>>
    /\ UNCHANGED <<size, index, owner, selections, visits, kind, ptoken, tokens0, auths>>

\* PaperPool::auth(token) is entered: the loop starts at slot 0.
pool_auth(token) ==
    /\ tpc[Driver] = "idle"
    /\ selections + auths < MaxPoolOps
    /\ tpc' = [tpc EXCEPT ![Driver] = "auth"]
    /\ local' = [local EXCEPT ![Driver] = 0]
    /\ ptoken' = token
    /\ presult' = NoResult
    /\ tokens0' = auth_token
    /\ auths' = auths + 1
    /\ UNCHANGED <<size, index, owner, selections, visits, kind>>

\* PaperPool::auth taking its slots through get_index(), as client() does.
pool_auth_lock_rotates ==
    /\ tpc[Driver] = "auth"
    /\ owner[Slot] = None
    /\ owner' = [owner EXCEPT ![Slot] = Driver]
    /\ tpc' = [tpc EXCEPT ![Driver] = "authing"]
    /\ index' = (index + 1) % size
    /\ UNCHANGED <<size, local, selections, visits, authVars>>

\* PaperPool::auth, `client.lock().expect(..)`: the guard of the next slot.
pool_auth_lock ==
    /\ tpc[Driver] = "auth"
    /\ owner[Slot] = None
    /\ owner' = [owner EXCEPT ![Slot] = Driver]
    /\ tpc' = [tpc EXCEPT ![Driver] = "authing"]
    /\ UNCHANGED <<size, index, local, selections, visits, authVars>>

\* PaperPool::auth going on to the next slot whatever the client's auth returned.
pool_auth_next_no_fail_fast ==
    /\ tpc[Driver] = "authing"
    /\ pc[Slot] = "done"
    /\ owner' = [owner EXCEPT ![Slot] = None]
    /\ IF Slot + 1 = size
       THEN /\ tpc' = [tpc EXCEPT ![Driver] = "idle"]
            /\ presult' = Ok("unit")
            /\ UNCHANGED local
       ELSE /\ tpc' = [tpc EXCEPT ![Driver] = "auth"]
            /\ local' = [local EXCEPT ![Driver] = Slot + 1]
            /\ UNCHANGED presult
    /\ UNCHANGED <<size, index, selections, visits, kind, ptoken, tokens0, auths>>

\* PaperPool::auth returning Ok once the first slot is authenticated.
pool_auth_next_first_slot_only ==
    /\ tpc[Driver] = "authing"
    /\ pc[Slot] = "done"
    /\ owner' = [owner EXCEPT ![Slot] = None]
    /\ tpc' = [tpc EXCEPT ![Driver] = "idle"]
    /\ presult' = IF result[Slot].ok THEN Ok("unit") ELSE Err(result[Slot].err)
    /\ UNCHANGED local
    /\ UNCHANGED <<size, index, selections, visits, kind, ptoken, tokens0, auths>>

\* PaperPool::auth, `.auth(token)?` has returned and the guard is dropped: an
\* error leaves auth(), otherwise the loop goes on, and after the last slot
\* auth() returns Ok(()).
pool_auth_next ==
    /\ tpc[Driver] = "authing"
    /\ pc[Slot] = "done"
    /\ owner' = [owner EXCEPT ![Slot] = None]
    /\ IF ~result[Slot].ok
       THEN /\ tpc' = [tpc EXCEPT ![Driver] = "idle"]
            /\ presult' = Err(result[Slot].err)
            /\ UNCHANGED local
       ELSE IF Slot + 1 = size
            THEN /\ tpc' = [tpc EXCEPT ![Driver] = "idle"]
                 /\ presult' = Ok("unit")
                 /\ UNCHANGED local
            ELSE /\ tpc' = [tpc EXCEPT ![Driver] = "auth"]
                 /\ local' = [local EXCEPT ![Driver] = Slot + 1]
                 /\ UNCHANGED presult
    /\ UNCHANGED <<size, index, selections, visits, kind, ptoken, tokens0, auths>>

\* The client of the driver's slot runs: in new(), in pool.auth(), or in a
\* method called through the guard.
Running == tpc[Driver] \in {"new", "authing", "calling"}

SlotConnect ==
    /\ Running /\ pc[Slot] = "init_stream"
    /\ dials[Slot] < MaxSlotDials
    /\ \E o \in ConnectOutcomes : At(Slot, connect(Cur(Slot), o))
    /\ UNCHANGED poolVars

SlotHandshake ==
    /\ Running /\ pc[Slot] = "handshake"
    /\ \E f \in UnitFrames : At(Slot, after_connect(Cur(Slot), f))
    /\ UNCHANGED poolVars

SlotSend ==
    /\ Running /\ pc[Slot] = "send"
    /\ \E o \in SendOutcomes : At(Slot, process_send(kind, Cur(Slot), o))
    /\ UNCHANGED poolVars

SlotReceive ==
    /\ Running /\ pc[Slot] = "receive"
    /\ \E f \in Frames(Top(Cur(Slot))) : At(Slot, process_receive(Cur(Slot), f))
    /\ UNCHANGED poolVars

PoolNew == pool_new_next /\ UNCHANGED <<clientVars, codecVars>>
PoolAuth == \E token \in Tokens : pool_auth(token) /\ Settled
AuthLock == pool_auth_lock /\ At(Slot, call(Cur(Slot), Auth(ptoken)))
AuthNext == pool_auth_next /\ UNCHANGED <<clientVars, codecVars>>
SlotLoad == selections + auths < MaxPoolOps /\ get_index_load(Driver) /\ Settled
SlotCall ==
    /\ guard_call(Driver)
    /\ calls[Slot] < MaxGuardCalls
    /\ \E cmd \in Commands : At(Slot, call(Cur(Slot), cmd))
SlotReturn == guard_return(Driver) /\ pc[Slot] = "done" /\ UNCHANGED <<clientVars, codecVars>>
SlotDrop == guard_drop(Driver) /\ Settled

\* new(addr, size) is entered with size > 0: no client is built yet.
PoolNewInit ==
    /\ size \in 1 .. MaxSlots
    /\ index = 0
    /\ owner = [i \in 0 .. size - 1 |-> None]
    /\ tpc = [t \in Callers |-> IF t = Driver THEN "new" ELSE "idle"]
    /\ local = [t \in Callers |-> 0]
    /\ selections = 0
    /\ visits = <<>>
    /\ kind \in Variants
    /\ ptoken = None
    /\ presult = NoResult
    /\ tokens0 = [i \in 0 .. size - 1 |-> None]
    /\ auths = 0
    /\ active = 0 .. size - 1
    /\ FreshClients
    /\ NoCodec

PoolClientNext ==
    \/ PoolNew \/ SlotConnect \/ SlotHandshake \/ SlotSend \/ SlotReceive
    \/ PoolAuth \/ AuthLock \/ AuthNext
    \/ SlotLoad \/ Store \/ Lock \/ SlotCall \/ SlotReturn \/ SlotDrop
PoolClientSpec == PoolNewInit /\ [][PoolClientNext]_vars

\* ------------------------------------------------ decoding an error envelope
\* A client that has written get(key) on the transport new() gave it reads a
\* reply whose flag is false: the two code bytes range over every u8, and over
\* the byte that is not there.
Bytes == 0 .. U8 - 1
Envelopes ==
    {Frame("false", None, c, s) : c \in Bytes \cup {EofCode}, s \in Bytes \cup {EofCode}}
Awaiting(variant) ==
    process_send(variant,
                 call(after_connect(connect(Fresh, "Ok"),
                                    Frame("true", None, EofCode, EofCode)),
                      Get("k")),
                 "Ok")
Decode ==
    /\ Ready("receive")
    /\ \E f \in Envelopes : Install([c \in active |-> process_receive(Cur(c), f)])
DecodeInit ==
    /\ active \in {{"blocking"}, {"async"}}
    /\ Clients0(Awaiting(One))
    /\ NoPool
    /\ NoCodec
DecodeSpec == DecodeInit /\ [][Decode]_vars

\* ------------------------------------------- a client whose peer has gone away
\* A constructed client keeps being called while its peer is gone: a write
\* may still be accepted, every read ends at end of stream and every dial
\* fails.  Nothing ever resets reconnect_attempts.
Built == after_connect(connect(Fresh, "Ok"), Frame("true", None, EofCode, EofCode))
GoneCall ==
    /\ InSync
    /\ \A c \in active : pc[c] \in {"idle", "done"} /\ calls[c] < MaxGoneCalls
    /\ Install([c \in active |-> call(Cur(c), Get("k"))])
GoneSend ==
    /\ Ready("send")
    /\ \E o \in SendOutcomes : Install([c \in active |-> process_send(c, Cur(c), o)])
GoneReceive ==
    /\ Ready("receive")
    /\ Install([c \in active |->
                  process_receive(Cur(c), Frame("eof", None, EofCode, EofCode))])
GoneConnect ==
    /\ Ready("init_stream")
    /\ Install([c \in active |-> connect(Cur(c), "ConnectFailed")])
OverflowPanic ==
    /\ Ready("overflow")
    /\ Install([c \in active |-> overflow_panic(Cur(c))])
OverflowWrap ==
    /\ Ready("overflow")
    /\ Install([c \in active |-> overflow_wrap(Cur(c))])
GoneInit ==
    /\ active \in {{"blocking"}, {"async"}}
    /\ Clients0(Built)
    /\ NoPool
    /\ NoCodec
GoneNext ==
    GoneCall \/ GoneSend \/ GoneReceive \/ GoneConnect \/ OverflowPanic \/ OverflowWrap
GoneSpec == GoneInit /\ [][GoneNext]_vars

\* ------------------------------------- every command, against every reply
\* A constructed client, with or without a stored token, is sent any command
\* of the protocol, and the peer answers with any reply at all.
Authed(variant) ==
    process_receive(process_send(variant, call(Built, Auth("t1")), "Ok"),
                    Frame("true", None, EofCode, EofCode))
AnyCall ==
    /\ InSync
    /\ \A c \in active : pc[c] \in {"idle", "done"} /\ calls[c] < MaxAnyCalls
    /\ \E cmd \in AllCommands : Install([c \in active |-> call(Cur(c), cmd)])
AnyReceive ==
    /\ Ready("receive")
    /\ \E f \in Wires : Install([c \in active |-> process_receive(Cur(c), f)])
Redial ==
    /\ Ready("init_stream")
    /\ dials[One] < MaxAnyDials
    /\ \E o \in ConnectOutcomes : Install([c \in active |-> connect(Cur(c), o)])
AnyInit ==
    /\ active \in {{"blocking"}, {"async"}}
    /\ Clients0(Built) \/ Clients0(Authed(One))
    /\ NoPool
    /\ NoCodec
AnyNext == AnyCall \/ Send \/ AnyReceive \/ Redial \/ Handshake
AnySpec == AnyInit /\ [][AnyNext]_vars

\* ------------------------------------------------------ set() and its value
\* A constructed client, with or without a stored token, is called with
\* set() on values that convert and on one that does not; the peer answers
\* with any reply.
SetCall ==
    /\ InSync
    /\ \A c \in active : pc[c] \in {"idle", "done"} /\ calls[c] < MaxSetCalls
    /\ \E value \in Values \cup {Unconvertible} :
          Install([c \in active |-> set(Cur(c), "k", value)])
SetInit ==
    /\ active \in {{"blocking"}, {"async"}}
    /\ Clients0(Built) \/ Clients0(Authed(One))
    /\ NoPool
    /\ NoCodec
SetNext == SetCall \/ Send \/ Receive \/ Connect \/ Handshake
SetSpec == SetInit /\ [][SetNext]_vars

\* ------------------------------------------------- a policy and its text
Render == render /\ UNCHANGED <<clientVars, poolVars, statusVars, sheetVars, serverVars>>
Parse == parse /\ UNCHANGED <<clientVars, poolVars, statusVars, sheetVars, serverVars>>
PolicyInit ==
    /\ policy \in PaperPolicy /\ text = NoText /\ parsed = NoParsed
    /\ NoClient /\ NoPool /\ NoStatuses /\ NoSheets /\ NoServer
PolicySpec == PolicyInit /\ [][Render \/ Parse]_vars

\* ------------------------------------------- a status reply and its decoding
DecodeStatus == decode_status /\ UNCHANGED <<clientVars, poolVars, policyVars, sheetVars, serverVars>>
StatusInit ==
    /\ body \in StatusBodies /\ decoded = NoDecoded
    /\ NoClient /\ NoPool /\ NoPolicies /\ NoSheets /\ NoServer
StatusSpec == StatusInit /\ [][DecodeStatus]_vars

\* ------------------------------------------- a public call and its encoding
Build == build /\ UNCHANGED <<clientVars, poolVars, policyVars, statusVars, serverVars>>
Encode == encode /\ UNCHANGED <<clientVars, poolVars, policyVars, statusVars, serverVars>>
SheetInit ==
    /\ request \in Requests /\ built = NoBuilt /\ sheet = NoSheet
    /\ NoClient /\ NoPool /\ NoPolicies /\ NoStatuses /\ NoServer
SheetSpec == SheetInit /\ [][Build \/ Encode]_vars

\* ------------------------------- a client and the reference cache server
\* A constructed client on a healthy connection: every write is accepted, the
\* server reads what was written and the client reads what the server wrote.
RefRequests ==
    {Request("get", None, k, None, NoneOption, 0, NoPolicy) : k \in Keys}
    \cup {Request("del", None, k, None, NoneOption, 0, NoPolicy) : k \in Keys}
    \cup {Request("set", None, k, v, NoneOption, 0, NoPolicy) : k \in Keys, v \in Values}
RefCall ==
    /\ \A c \in active : pc[c] \in {"idle", "done"} /\ calls[c] < MaxRefCalls
    /\ \E r \in RefRequests :
          /\ request' = r
          /\ built' = command_of(r)
          /\ sheet' = NoSheet
          /\ Moved([c \in active |-> call(Cur(c), [op |-> command_of(r).op, arg |-> r.key])])
    /\ UNCHANGED <<poolVars, policyVars, statusVars, serverVars>>
RefSend ==
    /\ Ready("send")
    /\ sheet' = to_sheet(built)
    /\ store' = serve_store(store, to_sheet(built))
    /\ reply' = serve_reply(store, to_sheet(built))
    /\ Moved([c \in active |-> process_send(c, Cur(c), "Ok")])
    /\ UNCHANGED <<poolVars, policyVars, statusVars, request, built, log>>
RefReceive ==
    /\ Ready("receive")
    /\ Moved([c \in active |-> process_receive(Cur(c), reply)])
    /\ log' = Append(log, [request |-> request,
                           result |-> process_receive(Cur(One), reply).result])
    /\ UNCHANGED <<poolVars, policyVars, statusVars, sheetVars, store, reply>>
RefInit ==
    /\ active \in {{"blocking"}, {"async"}}
    /\ Clients0(Built)
    /\ store = Empty /\ reply = NoFrame /\ log = <<>>
    /\ NoPool /\ NoPolicies /\ NoStatuses /\ NoSheets
RefNext == RefCall \/ RefSend \/ RefReceive
RefSpec == RefInit /\ [][RefNext]_vars

\* ------------------------------------ a call whose every step returns
\* A constructed client, with or without a stored token, against a peer that
\* may answer anything.  Every write, read and dial returns, so a step that
\* can be taken is taken: each step is weakly fair.  The history counters of
\* a call are left out, so that a call that goes round for ever is a cycle.
plain(s) ==
    [s EXCEPT !.sends = 0, !.dials = 0, !.reconnected = 0, !.irs = 0,
              !.handshakes = 0, !.last = NoAction]
LiveCall ==
    /\ InSync
    /\ \A c \in active : pc[c] \in {"idle", "done"} /\ calls[c] < MaxLiveCalls
    /\ \E cmd \in Commands : Install([c \in active |-> plain(call(Cur(c), cmd))])
LiveSend ==
    /\ Ready("send")
    /\ \E o \in SendOutcomes :
          Install([c \in active |-> plain(process_send(c, Cur(c), o))])
\* At the deepest nesting of replayed auths the reply can be read, which keeps
\* the nesting within MaxLiveDepth.
LiveReceive ==
    /\ Ready("receive")
    /\ \E f \in Frames(Top(Cur(One))) :
          /\ Depth(Cur(One)) >= MaxLiveDepth =>
                 receive(Top(Cur(One)), f) # Err(InvalidResponse)
          /\ Install([c \in active |-> plain(process_receive(Cur(c), f))])
LiveConnect ==
    /\ Ready("init_stream")
    /\ \E o \in ConnectOutcomes : Install([c \in active |-> plain(connect(Cur(c), o))])
LiveHandshake ==
    /\ Ready("handshake")
    /\ \E f \in UnitFrames : Install([c \in active |-> plain(after_connect(Cur(c), f))])
LiveInit ==
    /\ active \in {{"blocking"}, {"async"}}
    /\ Clients0(plain(Built)) \/ Clients0(plain(Authed(One)))
    /\ NoPool
    /\ NoCodec
LiveNext == LiveCall \/ LiveSend \/ LiveReceive \/ LiveConnect \/ LiveHandshake
LiveSpec ==
    /\ LiveInit /\ [][LiveNext]_vars
    /\ WF_vars(LiveSend) /\ WF_vars(LiveReceive)
    /\ WF_vars(LiveConnect) /\ WF_vars(LiveHandshake)

\* ================================================================ claims
Decoded(c) == receive(last[c].cmd, last[c].frame)
AppError(e) == e.family \in {"server", "cache"}

\* C1: within one public call the client re-establishes the transport at most
\* 3 times and writes the call's command at most 4 times, and a call whose
\* command round trips keep failing with InvalidResponse has returned
\* Disconnected once the 4th has failed -- with or without a stored token.
C1_ReconnectLoopBounded ==
    \A c \in active :
        /\ calls[c] >= 1 => dials[c] <= RECONNECT_MAX_ATTEMPTS
        /\ sends[c] <= RECONNECT_MAX_ATTEMPTS + 1
        /\ irs[c] > RECONNECT_MAX_ATTEMPTS =>
               pc[c] = "done" /\ result[c] = Err(Disconnected)

\* C2: when the call's own command decodes successfully -- on the first round
\* trip or after k failed ones -- the call has returned Ok with exactly the
\* decoded value, and after every call that returned Ok reconnect_attempts is 0.
C2_TransparentRetry ==
    \A c \in active :
        /\ (last[c].op = "receive" /\ last[c].depth = 1 /\ Decoded(c).ok) =>
               /\ pc[c] = "done"
               /\ last[c].cmd = command[c]
               /\ result[c] = Ok(Decoded(c).value)
        /\ (pc[c] = "done" /\ result[c].ok) =>
               /\ reconnect_attempts[c] = 0
               /\ last[c].op = "receive" /\ last[c].depth = 1
               /\ result[c] = Decoded(c)

\* C2 witness: a call returned a value after exactly 3 failed round trips and
\* 3 reconnects.
C2_Witness ==
    \E c \in active :
        /\ pc[c] = "done" /\ result[c].ok /\ result[c].value \in Values
        /\ irs[c] = 3 /\ dials[c] = 3 /\ sends[c] = 4

\* C3: after any call that returned a decoded server or cache error,
\* reconnect_attempts is 0.
C3_AppErrorResetsAttempts ==
    \A c \in active :
        (pc[c] = "done" /\ last[c].op = "receive" /\ ~result[c].ok
           /\ AppError(result[c].err)) => reconnect_attempts[c] = 0

\* C4: a write that fails on a dead connection (Disconnected) takes the
\* reconnect path -- the attempt is counted and the client dials, or the
\* ceiling ends the call -- and a write that fails on a malformed command
\* returns InvalidCommand to the caller.
C4_WriteFailureClassified ==
    \A c \in active :
        last[c].op = "send" =>
            /\ last[c].out = "InvalidStream" =>
                   \/ pc[c] = "init_stream"
                   \/ /\ pc[c] = "done" /\ result[c] = Err(Disconnected)
                      /\ reconnect_attempts[c] > RECONNECT_MAX_ATTEMPTS
            /\ last[c].out = "OtherStreamError" =>
                   pc[c] = "done" /\ result[c] = Err(InvalidCommand)

\* C5: a response that decodes to a server or cache error ends the call with
\* exactly that error: the step that decodes it writes nothing, dials nothing
\* and keeps the transport; and the client starts a reconnect only from a
\* decode that gave InvalidResponse.
C5_AppErrorIsFinal ==
    /\ [](\A c \in active :
            (last[c].op = "receive" /\ ~Decoded(c).ok /\ AppError(Decoded(c).err)) =>
                pc[c] = "done" /\ result[c] = Decoded(c))
    /\ [][\A c \in active :
            (pc[c] = "receive" /\ pc'[c] = "done" /\ ~result'[c].ok
               /\ AppError(result'[c].err)) =>
                /\ stream'[c] = stream[c]
                /\ sends'[c] = sends[c]
                /\ dials'[c] = dials[c]
                /\ reconnect_attempts'[c] = reconnect_attempts[c]]_vars
    /\ [][\A c \in active :
            (pc'[c] = "init_stream" /\ pc[c] # "init_stream") =>
                /\ pc[c] = "receive"
                /\ receive(last'[c].cmd, last'[c].frame) = Err(InvalidResponse)]_vars

\* C5 witness: a call that had already reconnected once returned KeyNotFound
\* from its second round trip.
C5_Witness ==
    \E c \in active :
        /\ pc[c] = "done" /\ last[c].op = "receive"
        /\ result[c] = Err(CacheError("KeyNotFound"))
        /\ dials[c] = 1 /\ sends[c] = 2

\* C6: a reconnect dials, runs the handshake, replays Auth with the stored
\* token exactly when one is stored, and only then writes the call's own
\* command again, once per reconnect that succeeded.
C6_ReconnectOrder ==
    \A c \in active :
        /\ (Len(stack[c]) = 1 /\ pc[c] \in {"send", "receive"} /\ ~stream[c].old) =>
               stream[c].hs = "ok" /\ stream[c].replay = auth_token[c]
        /\ (stream[c].written /\ ~stream[c].old) => stream[c].hs = "ok"
        /\ (last[c].op = "send" /\ last[c].depth = 1) => last[c].cmd = command[c]
        /\ (last[c].op = "send" /\ last[c].depth > 1 /\ pc[c] # "done") =>
               auth_token[c] # None /\ last[c].cmd = Auth(auth_token[c])
        /\ auth_token[c] = None => Len(stack[c]) <= 1
        /\ calls[c] >= 1 =>
               /\ sends[c] = reconnected[c]
                     + (IF pc[c] = "send" /\ Len(stack[c]) = 1 THEN 0 ELSE 1)
               /\ reconnected[c] <= dials[c]

\* C6 witness: with a token stored, the call's command has been written a
\* second time, on a transport dialed in this call that accepted the replay.
C6_Witness ==
    \E c \in active :
        /\ pc[c] = "receive" /\ Len(stack[c]) = 1 /\ command[c] = Get("k")
        /\ auth_token[c] = "t1" /\ stream[c].replay = "t1" /\ ~stream[c].old
        /\ sends[c] = 2 /\ reconnected[c] = 1

\* C7: once auth(t) has returned, Ok or Err, the stored token is t until the
\* next auth returns, and every replay of a reconnect sends Auth(t).
C7_AuthStoresToken ==
    \A c \in active :
        /\ auth_token[c] = last_auth[c].token
        /\ (pc[c] = "done" /\ command[c].op = "Auth") =>
               auth_token[c] = command[c].arg
        /\ (last[c].op = "send" /\ last[c].depth > 1 /\ pc[c] # "done") =>
               last_auth[c].token # None /\ last[c].cmd = Auth(last_auth[c].token)

\* C7 witness: auth("t2") was rejected, and the reconnect of a later get
\* replays Auth("t2").
C7_Witness ==
    \E c \in active :
        /\ last_auth[c] = [token |-> "t2", ok |-> FALSE]
        /\ command[c] = Get("k")
        /\ last[c].op = "send" /\ last[c].depth = 2 /\ last[c].cmd = Auth("t2")

\* C8 (as claimed): the handshake runs once on every transport dialed, in
\* new() and in reconnect(); new() returns a client, and a reconnect goes on,
\* only when the leading boolean is true; a false boolean fails new() or the
\* call with the error decoded from the envelope; and no command is ever
\* written to a connection whose handshake was refused.
C8_HandshakeGate ==
    \A c \in active :
        /\ handshakes[c] = dials[c] - (IF pc[c] = "handshake" THEN 1 ELSE 0)
        /\ (calls[c] = 0 /\ pc[c] = "idle") =>
               last[c].op = "handshake" /\ last[c].frame.flag = "true"
        /\ (pc[c] \in {"send", "receive"} /\ ~stream[c].old) => stream[c].hs = "ok"
        /\ (last[c].op = "handshake" /\ last[c].frame.flag = "false") =>
               /\ pc[c] = (IF calls[c] = 0 THEN "failed" ELSE "done")
               /\ result[c] = Err(from_reader(last[c].frame))
        /\ stream[c].hs = "rejected" => ~stream[c].written

\* C8 (amended): as above, but no command is written to the refused
\* connection before new() or the call that dialed it has returned.
C8_HandshakeGateWithinCall ==
    \A c \in active :
        /\ handshakes[c] = dials[c] - (IF pc[c] = "handshake" THEN 1 ELSE 0)
        /\ (calls[c] = 0 /\ pc[c] = "idle") =>
               last[c].op = "handshake" /\ last[c].frame.flag = "true"
        /\ (pc[c] \in {"send", "receive"} /\ ~stream[c].old) => stream[c].hs = "ok"
        /\ (last[c].op = "handshake" /\ last[c].frame.flag = "false") =>
               /\ pc[c] = (IF calls[c] = 0 THEN "failed" ELSE "done")
               /\ result[c] = Err(from_reader(last[c].frame))
        /\ (stream[c].hs = "rejected" /\ ~stream[c].old) => ~stream[c].written

\* C8 witness: the handshake of a reconnect read false, and the call returned
\* the decoded MaxConnectionsExceeded with nothing written to the connection.
C8_Witness ==
    \E c \in active :
        /\ calls[c] >= 1 /\ pc[c] = "done"
        /\ last[c].op = "handshake" /\ last[c].frame.flag = "false"
        /\ result[c] = Err(ServerError("MaxConnectionsExceeded"))
        /\ stream[c].hs = "rejected" /\ ~stream[c].written

\* C9: given the same calls and the same outcome of every wire operation, the
\* blocking and the async client stay in the same state: the same position in
\* the call, the same result, the same writes, reads and dials made, the
\* same reconnect_attempts and the same stored token.
C9_SameStateMachine ==
    \A c, d \in active :
        /\ pc[c] = pc[d] /\ stack[c] = stack[d]
        /\ result[c] = result[d]
        /\ sends[c] = sends[d] /\ dials[c] = dials[d] /\ handshakes[c] = handshakes[d]
        /\ last[c] = last[d]
        /\ reconnect_attempts[c] = reconnect_attempts[d]
        /\ auth_token[c] = auth_token[d]

\* C10: the k-th of a pool's sequential client() calls (k = 0, 1, ...) gets
\* slot k mod size, and any size consecutive calls get every slot once.
C10_RoundRobin ==
    /\ \A k \in 1 .. Len(visits) : visits[k] = (k - 1) % size
    /\ \A k \in 1 .. Len(visits) - size + 1 :
          /\ {visits[j] : j \in k .. k + size - 1} = 0 .. size - 1
          /\ \A i, j \in k .. k + size - 1 : visits[i] = visits[j] => i = j

\* C10 witness: a pool of 3 slots has served 4 calls, the last on slot 0 again.
C10_Witness ==
    /\ size = 3 /\ Len(visits) = size + 1
    /\ visits[1] = 0 /\ visits[size + 1] = 0

\* The slots that k selections in rotation order hand out, counted per slot.
Rotation(k, i) == Cardinality({j \in 0 .. k - 1 : j % size = i})
Handed(i) == Cardinality({j \in 1 .. Len(visits) : visits[j] = i})
Quiet == \A t \in Callers : tpc[t] \in {"idle", "holding", "calling"}

\* C11: under any interleaving of client() calls every selection advances the
\* index by exactly one: whenever no selection is under way, after m selections
\* the index is m mod size and slot i was handed out as often as the rotation
\* 0, 1, ..., (m - 1) mod size contains it.
C11_AtomicIncrement ==
    Quiet =>
        /\ index = selections % size
        /\ \A i \in 0 .. size - 1 : Handed(i) = Rotation(selections, i)

Holds(t, i) == tpc[t] \in {"holding", "calling"} /\ local[t] = i
InFlight(i) == {t \in Callers : tpc[t] = "calling" /\ local[t] = i}

\* C12: at any time at most one caller holds the guard of a slot and at most
\* one command is in flight on its client; a caller obtains the guard of a
\* slot only in a state where no caller holds it, and while a caller holds it
\* no other caller's call on that slot starts or ends.
C12_SlotMutualExclusion ==
    /\ [](\A i \in 0 .. size - 1 :
            /\ \A t, u \in Callers : (Holds(t, i) /\ Holds(u, i)) => t = u
            /\ \A t \in Callers : Holds(t, i) <=> owner[i] = t
            /\ Cardinality(InFlight(i)) <= 1)
    /\ [][\A t \in Callers :
            (tpc[t] = "locking" /\ tpc'[t] = "holding") =>
                \A u \in Callers : ~Holds(u, local[t])]_vars
    /\ [][\A t, u \in Callers :
            (t # u /\ tpc[t] = "calling" /\ local[u] = local[t]) =>
                (tpc'[u] = "calling") = (tpc[u] = "calling")]_vars

\* C12 witness: two callers were assigned the same slot of a pool of 2; one
\* has a command in flight on it while the other waits for the guard.
C12_Witness ==
    /\ size = 2
    /\ \E t, u \in Callers :
          /\ tpc[t] = "calling" /\ tpc[u] = "locking"
          /\ local[t] = local[u] /\ owner[local[t]] = t

\* What a pool-level state says about one slot.
AuthReturned == tpc[Driver] = "idle" /\ auths >= 1 /\ pc[Slot] = "done"
Authenticated(c, t) ==
    /\ command[c] = Auth(t) /\ pc[c] = "done" /\ result[c] = Ok("unit")
    /\ auth_token[c] = t
    /\ last[c].op = "receive" /\ last[c].depth = 1 /\ last[c].cmd = Auth(t)
    /\ last[c].frame.flag = "true"
Untouched(c) ==
    /\ pc[c] = "idle" /\ calls[c] = 0 /\ sends[c] = 0 /\ dials[c] = 0
    /\ last[c] = NoAction /\ command[c] = NoCommand

\* C13: pool.auth(token) takes the slots in the order 0, 1, ...: while it runs
\* and when it has returned, every slot before the current one is
\* authenticated and stores token, and every slot after it was sent nothing
\* and stores the token it stored before; auth returns at the first slot whose
\* auth fails, with exactly that error, and returns Ok only after the last slot.
C13_PoolAuthFailFast ==
    /\ (tpc[Driver] \in {"auth", "authing"} \/ AuthReturned) =>
           /\ \A c \in active : c < Slot => Authenticated(c, ptoken)
           /\ \A c \in active :
                 c > Slot => Untouched(c) /\ auth_token[c] = tokens0[c]
    /\ tpc[Driver] = "auth" => Untouched(Slot) /\ auth_token[Slot] = tokens0[Slot]
    /\ tpc[Driver] \in {"auth", "authing"} => presult = NoResult
    /\ AuthReturned =>
           /\ command[Slot] = Auth(ptoken)
           /\ presult = (IF result[Slot].ok THEN Ok("unit") ELSE Err(result[Slot].err))
           /\ presult.ok => Slot = size - 1 /\ Authenticated(Slot, ptoken)

\* C13 witness: on a pool of 2 whose slots store t1, auth("t2") was refused on
\* slot 0 and returned Unauthorized; slot 1 was sent nothing and stores t1.
C13_Witness ==
    /\ AuthReturned /\ size = 2 /\ Slot = 0
    /\ tokens0[0] = "t1" /\ tokens0[1] = "t1" /\ ptoken = "t2"
    /\ presult = Err(ServerError("Unauthorized"))
    /\ auth_token[1] = "t1" /\ sends[1] = 0

Constructed(c) ==
    /\ pc[c] = "idle" /\ stream[c].hs = "ok" /\ dials[c] = 1 /\ handshakes[c] = 1
    /\ last[c].op = "handshake" /\ last[c].frame.flag = "true"
NeverDialed(c) == pc[c] = "init_stream" /\ dials[c] = 0 /\ last[c] = NoAction

\* C14: new(addr, size) with size >= 1 builds the clients in order; it returns
\* a pool only when every one of the size clients has dialed and passed its
\* handshake, and returns the error of the first client that fails, without
\* dialing the ones after it; the pool has exactly size slots, and no step
\* changes the number of slots.
C14_PoolAllOrNothing ==
    /\ [](/\ size >= 1 /\ active = 0 .. size - 1 /\ DOMAIN owner = 0 .. size - 1
          /\ tpc[Driver] \in {"new", "failed"} =>
                /\ \A c \in active : c < Slot => Constructed(c)
                /\ \A c \in active : c > Slot => NeverDialed(c)
          /\ tpc[Driver] = "new" => presult = NoResult
          /\ tpc[Driver] = "failed" =>
                /\ pc[Slot] = "failed" /\ ~result[Slot].ok
                /\ presult = Err(result[Slot].err)
          /\ tpc[Driver] \notin {"new", "failed"} =>
                /\ \A c \in active : pc[c] # "failed"
                /\ selections + auths = 0 =>
                       presult = Ok("pool") /\ \A c \in active : Constructed(c))
    /\ [][/\ size' = size /\ active' = active /\ DOMAIN owner' = DOMAIN owner
          /\ tpc[Driver] \notin {"new", "failed"} =>
                tpc'[Driver] \notin {"new", "failed"}]_vars

\* C14 witness: new(addr, 2) built slot 0, the handshake of slot 1 was refused,
\* and new returned MaxConnectionsExceeded and no pool.
C14_Witness ==
    /\ size = 2 /\ tpc[Driver] = "failed" /\ Slot = 1
    /\ Constructed(0)
    /\ presult = Err(ServerError("MaxConnectionsExceeded"))

NeverAuthed == auths = 0 /\ \A c \in active : last_auth[c] = NoAuth /\ command[c].op # "Auth"

\* C15: when pool.auth(token) has returned Ok, every slot stores token and the
\* last thing its transport carried is the server's acceptance of Auth(token);
\* from then on a slot's stored token changes only when the caller itself
\* calls auth on that slot through a guard, and a command of a later call goes
\* to a transport dialed in that call only after that transport accepted the
\* replay of the stored token.  On a pool on which no auth was ever called no
\* slot stores a token, no Auth is ever sent, and a reply carrying the
\* server's Unauthorized ends the call with exactly that error.
C15_PoolAuthAuthorizes ==
    /\ []((AuthReturned /\ presult.ok) => \A c \in active : Authenticated(c, ptoken))
    /\ [][(presult = Ok("unit") /\ presult' = Ok("unit")) =>
            \A c \in active :
                auth_token'[c] # auth_token[c] =>
                    /\ tpc[Driver] = "calling" /\ c = Slot
                    /\ command[c].op = "Auth" /\ auth_token'[c] = command[c].arg]_vars
    /\ [](presult = Ok("unit") =>
            \A c \in active :
                /\ auth_token[c] # None
                /\ (pc[c] \in {"send", "receive"} /\ Len(stack[c]) = 1
                      /\ ~stream[c].old) => stream[c].replay = auth_token[c])
    /\ [](NeverAuthed =>
            \A c \in active :
                /\ auth_token[c] = None /\ Len(stack[c]) <= 1
                /\ last[c].op = "send" => last[c].cmd.op # "Auth"
                /\ (last[c].op = "receive" /\ last[c].frame.flag = "false"
                      /\ last[c].frame.code = 3) =>
                       pc[c] = "done" /\ result[c] = Err(ServerError("Unauthorized")))

\* C15 witness: after pool.auth("t1") returned Ok on a pool of 2, a get through
\* client() lost its transport, reconnected with the replay of t1 and returned
\* a value.
C15_Witness ==
    /\ size = 2 /\ presult = Ok("unit") /\ ptoken = "t1" /\ selections = 1
    /\ tpc[Driver] = "calling" /\ pc[Slot] = "done"
    /\ command[Slot] = Get("k") /\ result[Slot].ok
    /\ stream[Slot].replay = "t1" /\ dials[Slot] = 1

\* C15 witness of the pool without credentials: a get through client() was
\* answered Unauthorized.
C15_WitnessNeverAuthed ==
    /\ NeverAuthed /\ tpc[Driver] = "calling" /\ pc[Slot] = "done"
    /\ command[Slot] = Get("k")
    /\ result[Slot] = Err(ServerError("Unauthorized"))

\* The two-level table of the error envelope, as the protocol states it.
CacheKinds ==
    <<"KeyNotFound", "ZeroValueSize", "ExceedingValueSize", "ZeroCacheSize",
      "UnconfiguredPolicy", "InvalidPolicy">>
Envelope(code, sub) ==
    IF code = 0
    THEN CacheError(IF sub \in 1 .. Len(CacheKinds) THEN CacheKinds[sub] ELSE "Internal")
    ELSE ServerError(IF code = 2 THEN "MaxConnectionsExceeded"
                     ELSE IF code = 3 THEN "Unauthorized" ELSE "Internal")

\* C16: a reply with a false flag and a category code 0 followed by a cache
\* code decodes to the cache error of the table; with any non-zero category
\* code it decodes to the server error of the table whatever follows the
\* code, also when nothing follows it; and the call returns exactly that
\* error, of the cache family for category 0 and of the server family otherwise.
C16_EnvelopeDecoding ==
    \A c \in active :
        LET f == last[c].frame
        IN (last[c].op = "receive" /\ f.flag = "false" /\ f.code # EofCode
              /\ (f.code = 0 => f.sub # EofCode)) =>
               /\ from_reader(f) = Envelope(f.code, f.sub)
               /\ pc[c] = "done" /\ result[c] = Err(Envelope(f.code, f.sub))
               /\ result[c].err.family = (IF f.code = 0 THEN "cache" ELSE "server")

\* C16 witness: category 3 with no byte after it was decoded to Unauthorized.
C16_Witness ==
    \E c \in active :
        /\ last[c].op = "receive" /\ last[c].frame.code = 3 /\ last[c].frame.sub = EofCode
        /\ result[c] = Err(ServerError("Unauthorized"))

\* C16 witness of the cache family: category 0, cache code 6 was decoded to
\* InvalidPolicy.
C16_WitnessCache ==
    \E c \in active :
        /\ last[c].op = "receive" /\ last[c].frame.code = 0 /\ last[c].frame.sub = 6
        /\ result[c] = Err(CacheError("InvalidPolicy"))

\* A read of the reply failed: of the flag, of the payload of a value-shaped
\* reply, or of a code of the error envelope.
ReadFailed(cmd, f) ==
    \/ f.flag = "eof"
    \/ f.flag = "true" /\ ~UnitShaped(cmd) /\ f.payload = "eof"
    \/ f.flag = "false" /\ (f.code = EofCode \/ (f.code = 0 /\ f.sub = EofCode))
Forget(s) == [s EXCEPT !.last = NoAction]

\* C17: whichever read of a command's reply fails, the decode gives
\* InvalidResponse and the client takes the reconnect path: the attempt is
\* counted and the client dials, or the ceiling ends the call with
\* Disconnected; and the step leaves the client exactly where a failed read of
\* the flag would have left it.
C17_ReadFailureReconnects ==
    /\ [](\A c \in active :
            (last[c].op = "receive" /\ ReadFailed(last[c].cmd, last[c].frame)) =>
                /\ Decoded(c) = Err(InvalidResponse)
                /\ \/ pc[c] = "init_stream"
                   \/ /\ pc[c] = "done" /\ result[c] = Err(Disconnected)
                      /\ reconnect_attempts[c] > RECONNECT_MAX_ATTEMPTS)
    /\ [][\A c \in active :
            (pc[c] = "receive" /\ last'[c].op = "receive"
               /\ ReadFailed(last'[c].cmd, last'[c].frame)) =>
                /\ reconnect_attempts'[c] = reconnect_attempts[c] + 1
                /\ Forget(Cur(c)') =
                       Forget(process_receive(Cur(c), Frame("eof", None, EofCode, EofCode)))]_vars

\* C17 witness: the reply to a get carried a false flag and category 0 but no
\* cache code; the attempt was counted and the client is about to dial.
C17_Witness ==
    \E c \in active :
        /\ last[c].op = "receive" /\ last[c].cmd = Get("k")
        /\ last[c].frame.flag = "false" /\ last[c].frame.code = 0
        /\ last[c].frame.sub = EofCode
        /\ pc[c] = "init_stream" /\ reconnect_attempts[c] = 1

\* C18: no public call ends in a panic: every call that was started has
\* returned a Result or is still running.
C18_NoPanic == \A c \in active : pc[c] # "panicked"

\* C19: for every policy p, parse(render(p)) succeeds and equals p.
C19_PolicyRoundTrip ==
    parsed # NoParsed => parsed.ok /\ policy_eq(parsed.value, policy)


\* C20: the reader that decodes a reply is fixed by the command that was sent
\* and not by the bytes of the reply: Auth, Del, Set, Ttl, Wipe, Resize and
\* Policy are read as unit, Ping, Version, Get and Peek as a value, Has as a
\* bool, Size as a count and Status as a status, on the first attempt and on
\* every retry after a reconnect.  Whatever the peer sent, the step that reads
\* the reply ends as that one reader's result says: its Ok value or its
\* application error is what the call returns (or what ends the replayed
\* Auth), and its InvalidResponse is what sends the call to reconnect.
StatedShape(op) ==
    CASE op \in {"Auth", "Del", "Set", "Ttl", "Wipe", "Resize", "Policy"} -> "unit"
      [] op \in {"Ping", "Version", "Get", "Peek"} -> "value"
      [] op = "Has" -> "bool"
      [] op = "Size" -> "count"
      [] op = "Status" -> "status"
Read(shape, f) ==
    CASE shape = "unit" -> parse_reader(f)
      [] shape = "value" -> parse_buf_reader(f)
      [] shape = "bool" -> parse_has_reader(f)
      [] shape = "count" -> parse_size_reader(f)
      [] shape = "status" -> parse_status_reader(f)
ReadAs(c, cmd, d) ==
    /\ last'[c].op = "receive" /\ last'[c].cmd = cmd
    /\ (d.ok /\ Len(stack[c]) = 1) => pc'[c] = "done" /\ result'[c] = d
    /\ (d.ok /\ Len(stack[c]) > 1) =>
            pc'[c] = "send" /\ stack'[c] = SubSeq(stack[c], 1, Len(stack[c]) - 1)
    /\ (~d.ok /\ d.err # InvalidResponse) => pc'[c] = "done" /\ result'[c] = d
    /\ (~d.ok /\ d.err = InvalidResponse) =>
            /\ reconnect_attempts'[c] = reconnect_attempts[c] + 1
            /\ \/ pc'[c] = "init_stream" /\ stack'[c] = stack[c]
               \/ pc'[c] = "done" /\ result'[c] = Err(Disconnected)
C20_DecoderByCommand ==
    [][\A c \in active :
          pc[c] = "receive" =>
              ReadAs(c, stack[c][Len(stack[c])],
                     Read(StatedShape(stack[c][Len(stack[c])].op), last'[c].frame))]_vars
\* A Has that was retried after a reconnect returned the bool of a reply whose
\* bytes also read as a value, a count and a status.
C20_Witness ==
    \E c \in active :
        /\ pc[c] = "done" /\ command[c].op = "Has" /\ reconnected[c] > 0
        /\ last[c].op = "receive" /\ last[c].frame.flag = "true"
        /\ last[c].frame.payload = "v1" /\ last[c].frame.size = "4"
        /\ last[c].frame.status = "status"
        /\ result[c] = Ok(last[c].frame.has)

\* C21: decoding a status reply is all or nothing.  When the body holds every
\* item (ten fixed fields, the count n, n + 1 policy strings, the auto flag and
\* the uptime) and each of the n + 1 strings parses, the result is a Status
\* whose fields are the items in the order pid, max size, used size, object
\* count, rss, hwm, gets, sets, dels, miss ratio, policy list, current policy,
\* auto flag, uptime.  In every other case the result is InvalidResponse and
\* carries no Status.
Listed(w) == w[11].v
Complete(w) ==
    /\ Len(w) >= 11
    /\ Len(w) >= 14 + Listed(w)
    /\ \A i \in 12 .. 12 + Listed(w) : from_str(w[i].v).ok
InOrder(st, w) ==
    /\ st.pid = w[1].v /\ st.max_size = w[2].v /\ st.used_size = w[3].v
    /\ st.num_objects = w[4].v /\ st.rss = w[5].v /\ st.hwm = w[6].v
    /\ st.total_gets = w[7].v /\ st.total_sets = w[8].v /\ st.total_dels = w[9].v
    /\ st.miss_ratio = w[10].v
    /\ Len(st.policies) = Listed(w)
    /\ \A i \in 1 .. Listed(w) : st.policies[i] = from_str(w[11 + i].v).value
    /\ st.policy = from_str(w[12 + Listed(w)].v).value
    /\ st.is_auto_policy = w[13 + Listed(w)].v
    /\ st.uptime = w[14 + Listed(w)].v
C21_StatusAllOrNothing ==
    decoded # NoDecoded =>
        IF Complete(body)
        THEN decoded.ok /\ InOrder(decoded.value, body)
        ELSE decoded = StatusErr(InvalidResponse)
\* A body with every item in place, two listed policies read, and a current
\* policy string that does not parse: no Status.
C21_Witness ==
    /\ decoded # NoDecoded /\ ~decoded.ok
    /\ Len(body) = 16 /\ Listed(body) = 2
    /\ from_str(body[12].v).ok /\ from_str(body[13].v).ok /\ ~from_str(body[14].v).ok
\* A body with two listed policies decoded into a Status.
C21_WitnessStatus ==
    /\ decoded.ok /\ Len(decoded.value.policies) = 2 /\ decoded.value.uptime = 14

\* C22: the encoding of a command is the opcode of its variant followed by
\* exactly the fields of that variant in the stated order (Auth: token; Get,
\* Del, Has, Peek, Size: key; Set: key, value, ttl; Ttl: key, ttl; Resize:
\* size; Policy: the rendered policy string; Ping, Version, Wipe, Status:
\* nothing), so the tag read back from the encoding is the opcode of the
\* command; set and ttl called with ttl = None encode ttl 0.
OpcodeOf(method) ==
    CASE method = "ping" -> "PING" [] method = "version" -> "VERSION"
      [] method = "auth" -> "AUTH" [] method = "get" -> "GET"
      [] method = "set" -> "SET" [] method = "del" -> "DEL"
      [] method = "has" -> "HAS" [] method = "peek" -> "PEEK"
      [] method = "ttl" -> "TTL" [] method = "size" -> "SIZE"
      [] method = "wipe" -> "WIPE" [] method = "resize" -> "RESIZE"
      [] method = "policy" -> "POLICY" [] method = "status" -> "STATUS"
StatedTtl(r) == IF r.ttl.some THEN r.ttl.v ELSE 0
StatedFields(r) ==
    CASE r.method \in {"ping", "version", "wipe", "status"} -> <<>>
      [] r.method = "auth" -> <<Item("str", r.token)>>
      [] r.method \in {"get", "del", "has", "peek", "size"} -> <<Item("str", r.key)>>
      [] r.method = "set" ->
             <<Item("str", r.key), Item("buf", r.value), Item("u32", StatedTtl(r))>>
      [] r.method = "ttl" -> <<Item("str", r.key), Item("u32", StatedTtl(r))>>
      [] r.method = "resize" -> <<Item("u64", r.size)>>
      [] r.method = "policy" -> <<Item("str", fmt(r.policy))>>
decode_opcode(bytes) == bytes[1].v
C22_CommandEncoding ==
    sheet # NoSheet =>
        /\ sheet[1].kind = "u8"
        /\ decode_opcode(sheet) = OpcodeOf(request.method)
        /\ Len(sheet) = 1 + Len(StatedFields(request))
        /\ \A i \in 1 .. Len(StatedFields(request)) : sheet[i + 1] = StatedFields(request)[i]
\* set("k", v, None) was encoded: SET, the key, the value, ttl 0.
C22_Witness ==
    /\ request.method = "set" /\ ~request.ttl.some
    /\ sheet = <<Item("u8", "SET"), Item("str", "k"), Item("buf", request.value),
                 Item("u32", 0)>>

\* C23: against the reference server over a healthy connection, get(key) on a
\* key that was never set, or whose latest set was followed by a del, returns
\* the cache error KeyNotFound, and the get(key) that comes immediately after
\* a set(key, v, None) that returned Ok returns exactly v.
IsGet(e) == e.request.method = "get"
Wrote(e, k) == e.request.method \in {"set", "del"} /\ e.request.key = k /\ e.result.ok
Writes(i) == {j \in 1 .. i - 1 : Wrote(log[j], log[i].request.key)}
Latest(i) == CHOOSE j \in Writes(i) : \A n \in Writes(i) : n <= j
Absent(i) == Writes(i) = {} \/ log[Latest(i)].request.method = "del"
JustSet(i) ==
    /\ i > 1 /\ log[i - 1].request.method = "set" /\ log[i - 1].result.ok
    /\ log[i - 1].request.key = log[i].request.key
C23_GetAfterSet ==
    \A i \in 1 .. Len(log) :
        IsGet(log[i]) =>
            /\ Absent(i) => log[i].result = Err(CacheError("KeyNotFound"))
            /\ JustSet(i) => log[i].result = Ok(log[i - 1].request.value)
\* set("k", v2) over an earlier value, then get("k") returned v2.
C23_Witness ==
    /\ Len(log) = 3
    /\ log[1].request.method = "set" /\ log[1].request.value = "v1"
    /\ log[2].request.method = "set" /\ log[2].request.value = "v2"
    /\ log[1].request.key = "k" /\ log[2].request.key = "k" /\ log[3].request.key = "k"
    /\ IsGet(log[3]) /\ log[3].result = Ok("v2")
\* set, del, then get of the same key returned KeyNotFound.
C23_WitnessDeleted ==
    /\ Len(log) = 3 /\ IsGet(log[3]) /\ Absent(3) /\ Writes(3) # {}
    /\ log[3].result = Err(CacheError("KeyNotFound"))

\* C24: no send error is swallowed.  In both clients a call goes on to read a
\* response only after its command was written: after a write that failed the
\* call is either reconnecting or has returned the write error, and it is
\* never waiting to read.
WriteError(o) == send(o).err
C24_NoSwallowedSendError ==
    \A c \in active :
        (last[c].op = "send" /\ last[c].out # "Ok") =>
            /\ pc[c] # "receive"
            /\ \/ pc[c] = "init_stream"
               \/ pc[c] = "done" /\ result[c] = Err(WriteError(last[c].out))

\* C25: every public call terminates when each write, read and dial returns:
\* a call that has entered Sending eventually is Done, whatever the peer does
\* and whether or not a token is stored.
C25_CallTerminates == (pc[One] = "send") ~> (pc[One] = "done")

\* C26: a failed reconnect is terminal for the call.  When the dial of a
\* reconnect fails the call returns UnreachableServer, and when the handshake
\* fails the call returns the handshake error; the step that fails ends the
\* call (no further dial, no write of the command) and leaves
\* reconnect_attempts at its incremented value.
DialFailed(a) == a.op = "connect" /\ a.depth >= 1 /\ a.out = "ConnectFailed"
HandshakeFailed(a) == a.op = "handshake" /\ a.depth >= 1 /\ ~handshake(a.frame).ok
C26_FailedReconnectTerminal ==
    /\ [](\A c \in active :
            /\ DialFailed(last[c]) =>
                   pc[c] = "done" /\ result[c] = Err(UnreachableServer)
            /\ HandshakeFailed(last[c]) =>
                   pc[c] = "done" /\ result[c] = handshake(last[c].frame))
    /\ [][\A c \in active :
            (last'[c] # last[c] /\ (DialFailed(last'[c]) \/ HandshakeFailed(last'[c]))) =>
                /\ reconnect_attempts'[c] = reconnect_attempts[c]
                /\ reconnect_attempts[c] >= 1
                /\ sends'[c] = sends[c]
                /\ dials'[c] = dials[c]]_vars
\* A call whose reconnect dialed and was then refused at the handshake has
\* returned the server's error, with the attempt still counted.
C26_Witness ==
    \E c \in active :
        /\ pc[c] = "done" /\ HandshakeFailed(last[c])
        /\ result[c] = Err(ServerError("MaxConnectionsExceeded"))
        /\ reconnect_attempts[c] = 1 /\ sends[c] = 1 /\ dials[c] = 1

\* C27: when the Auth replayed during a reconnect is rejected by the server,
\* the call that triggered the reconnect returns that server error; the step
\* writes nothing and dials nothing, so the call's own command is not sent on
\* the new connection, and the connection dialed by the reconnect stays
\* installed as the client's transport.
ReplayRejected(c) ==
    /\ last[c].op = "receive" /\ last[c].depth >= 2
    /\ ~Decoded(c).ok /\ Decoded(c).err.family = "server"
C27_ReplayRejected ==
    /\ [](\A c \in active :
            ReplayRejected(c) =>
                /\ pc[c] = "done" /\ result[c] = Decoded(c)
                /\ stream[c].hs = "ok" /\ ~stream[c].old)
    /\ [][\A c \in active :
            (pc[c] = "receive" /\ Len(stack[c]) >= 2 /\ pc'[c] = "done") =>
                /\ [stream'[c] EXCEPT !.stale = stream[c].stale] = stream[c]
                /\ sends'[c] = sends[c] /\ dials'[c] = dials[c]
                /\ sends[c] <= dials[c]]_vars
\* get("k") on a client that stores t1: the reply could not be read, the client
\* dialed once, the replayed Auth("t1") was answered Unauthorized, and the call
\* returned Unauthorized after one write of Get, leaving installed the new
\* connection, on which no Auth was accepted.
C27_Witness ==
    \E c \in active :
        /\ ReplayRejected(c) /\ command[c] = Get("k") /\ last[c].cmd = Auth("t1")
        /\ result[c] = Err(ServerError("Unauthorized"))
        /\ sends[c] = 1 /\ dials[c] = 1 /\ stream[c].written
        /\ stream[c].replay = None

\* ------------------------------------------------------------------ C28
\* What the code keeps for the client of slot c: its transport, its stored
\* token and its counter.
Fields(c) == <<stream[c], auth_token[c], reconnect_attempts[c]>>
\* The step only forgets what was recorded about the finished calls of slot c.
Forgot(c) == Cur(c)' = settle(Cur(c))
\* The step changed what the code keeps for slot c.
Touched(c) == Fields(c)' # Fields(c) /\ ~Forgot(c)
\* C28: pool slots are independent.  A step that changes the transport, the
\* stored token or reconnect_attempts of one slot is a step of the client of
\* the slot the caller works on, and it leaves the transport, the stored token
\* and reconnect_attempts of every other slot as they were.
C28_SlotsIndependent ==
    [][\A c \in active :
          Touched(c) =>
              /\ c = Slot
              /\ \A d \in active \ {c} :
                    \/ Fields(d)' = Fields(d)
                    \/ Forgot(d) /\ auth_token'[d] = auth_token[d]
                                 /\ reconnect_attempts'[d] = reconnect_attempts[d]]_vars
\* Slot 1 has stored a token, reconnected and counted a failure through a
\* guard, while slot 0 still has no token and a counter of zero.
C28_Witness ==
    /\ size = 2 /\ tpc[Driver] = "calling" /\ Slot = 1
    /\ auth_token[1] # None /\ auth_token[0] = None
    /\ reconnect_attempts[1] > 0 /\ reconnect_attempts[0] = 0
    /\ reconnected[1] > 0

\* ------------------------------------------------------------------ C29
\* The slots whose guard caller t holds.
Held(t) == {i \in 0 .. size - 1 : owner[i] = t}
InClient(t) == tpc[t] \in {"loaded", "locking"}
InAuth(t) == tpc[t] \in {"auth", "authing"}
C30_AttemptsInRange ==
    \A c \in active :
        /\ reconnect_attempts[c] \in 0 .. RECONNECT_MAX_ATTEMPTS + 1
        /\ pc[c] \notin {"overflow", "panicked"}

\* ------------------------------------------------------------------ C31
\* C31: no stale bytes are interpreted as a response.  Once a decode has
\* failed with InvalidResponse on a transport, no later read is made on that
\* transport, in the same call or in a later one; so a result returned to a
\* caller was decoded on a connection with no earlier decode failure.
C31_NoStaleRead ==
    [][\A c \in active :
          (pc[c] = "receive" /\ last'[c].op = "receive") => ~stream[c].stale]_vars

\* ------------------------------------------------------------------ C32
\* C32: a public call never returns InvalidResponse to its caller: every
\* InvalidResponse that arises during a call, the handshake and the replayed
\* auth of a reconnect included, is absorbed by a retry or reported as
\* Disconnected.
C32_NoInvalidResponseReturned ==
    \A c \in active :
        (calls[c] >= 1 /\ pc[c] = "done") => result[c] # Err(InvalidResponse)

\* ------------------------------------------------------------------ C33
\* The step is a read whose decode gave InvalidResponse.
SawInvalidResponse(c) ==
    /\ pc[c] = "receive" /\ last'[c].op = "receive"
    /\ Decoded(c)' = Err(InvalidResponse)
\* The step is a read that completed a round trip.
RoundTrip(c) == pc[c] = "receive" /\ last'[c].op = "receive" /\ Decoded(c)'.ok
\* C33: the reconnect budget is shared across calls.  reconnect_attempts goes
\* down only when a round trip succeeds, a failed call included; so a client
\* with no stored token dials only with the counter in 1..3, at most three
\* times in all while no round trip succeeds; and once the counter exceeds 3
\* a call that sees InvalidResponse returns Disconnected without dialing.
C33_SharedBudget ==
    /\ [][\A c \in active :
             reconnect_attempts'[c] < reconnect_attempts[c] => RoundTrip(c)]_vars
    /\ [](\A c \in active :
             (calls[c] >= 1 /\ auth_token[c] = None /\ pc[c] = "init_stream") =>
                 reconnect_attempts[c] \in 1 .. RECONNECT_MAX_ATTEMPTS)
    /\ [][\A c \in active :
             (SawInvalidResponse(c) /\ reconnect_attempts[c] >= RECONNECT_MAX_ATTEMPTS) =>
                 /\ pc'[c] = "done" /\ result'[c] = Err(Disconnected)
                 /\ dials'[c] = dials[c]]_vars

\* ------------------------------------------------------------------ C34
\* C34: the stored token changes only through auth().  A freshly constructed
\* client has no token and reconnect_attempts 0; the token's value changes
\* only in the step in which a public auth(t) returns, and then to t; no other
\* public operation and no reconnect, successful or failed, changes it; and
\* once a token is stored it is never cleared.
C34_TokenOnlyThroughAuth ==
    /\ [](\A c \in active :
             calls[c] = 0 => auth_token[c] = None /\ reconnect_attempts[c] = 0)
    /\ [][\A c \in active :
             /\ auth_token'[c] # auth_token[c] =>
                    /\ command[c].op = "Auth" /\ pc'[c] = "done"
                    /\ auth_token'[c] = command[c].arg
             /\ auth_token[c] # None => auth_token'[c] # None]_vars
\* A get on a client that stores t1 reconnected, the replayed auth was
\* refused and the call returned the error: the token is still t1.
C34_Witness ==
    \E c \in active :
        /\ command[c] = Get("k") /\ pc[c] = "done" /\ ~result[c].ok
        /\ dials[c] >= 1 /\ last[c].op = "receive" /\ last[c].depth = 2
        /\ auth_token[c] = "t1"

\* ------------------------------------------------------------------ C35
\* A public auth() is running on client c.
InAuthCall(c) == calls[c] >= 1 /\ command[c].op = "Auth" /\ pc[c] # "done"
\* C35: while auth(t2) runs on a client that stores t1 (or no token), the
\* stored token is still t1 (or none); a reconnect inside the call replays
\* Auth(t1), or nothing when no token is stored, and only then is Auth(t2)
\* written again; the stored token is t2 once the call has returned.
C35_ReplayUsesOldToken ==
    \A c \in active :
        /\ InAuthCall(c) =>
               /\ auth_token[c] = last_auth[c].token
               /\ last[c].op = "send" /\ last[c].depth > 1 =>
                      /\ last_auth[c].token # None
                      /\ last[c].cmd = Auth(last_auth[c].token)
               /\ last[c].op = "send" /\ last[c].depth = 1 =>
                      /\ last[c].cmd = command[c]
                      /\ ~stream[c].old => stream[c].replay = last_auth[c].token
               /\ last_auth[c].token = None => Len(stack[c]) <= 1
        /\ (calls[c] >= 1 /\ command[c].op = "Auth" /\ pc[c] = "done") =>
               auth_token[c] = command[c].arg
\* auth("t2") on a client that stores t1 has reconnected, the new connection
\* accepted the replayed Auth("t1"), and Auth("t2") has been written again
\* while the stored token is still t1.
C35_Witness ==
    \E c \in active :
        /\ command[c] = Auth("t2") /\ pc[c] = "receive" /\ Len(stack[c]) = 1
        /\ auth_token[c] = "t1" /\ stream[c].replay = "t1" /\ ~stream[c].old
        /\ last[c].op = "send" /\ last[c].cmd = Auth("t2") /\ sends[c] = 2

\* ------------------------------------------------------------------ C36
\* C36: the rotation index is in 0 .. size - 1 in every reachable state,
\* under every interleaving of concurrent client() calls, and so is the slot
\* that a caller inside client() has selected: `self.clients[index]` never
\* indexes out of bounds.
C36_IndexInRange ==
    /\ index \in 0 .. size - 1
    /\ \A t \in Callers : tpc[t] # "idle" => local[t] \in 0 .. size - 1
\* Two concurrent client() calls on a pool of 2 both loaded index 1 and both
\* stored (1 + 1) mod 2: the index is 0 again and both selected slot 1.
C36_Witness ==
    /\ size = 2 /\ index = 0
    /\ \A t \in Callers : tpc[t] = "locking" /\ local[t] = 1

\* ------------------------------------------------------------------ C37
\* The step belongs to a pool auth(): it enters auth(), locks a slot, runs the
\* slot's client, or goes on to the next slot or returns.
AuthStep ==
    \/ tpc[Driver] \in {"auth", "authing"}
    \/ tpc'[Driver] \in {"auth", "authing"}
\* C37: pool auth(token) leaves the rotation index unchanged, whether it
\* succeeds or fails, so the next client() call gets the slot it would have
\* got without the auth.
C37_AuthKeepsIndex == [][AuthStep => index' = index]_vars
\* On a pool of 2 one client() call moved the index to 1; then a pool auth()
\* failed, and the index is still 1.
C37_Witness ==
    /\ size = 2 /\ index = 1 /\ selections = 1 /\ auths = 1
    /\ tpc[Driver] = "idle" /\ presult # NoResult /\ ~presult.ok
\* As above, with an auth() that succeeded on both slots.
C37_WitnessOk ==
    /\ size = 2 /\ index = 1 /\ selections = 1 /\ auths = 1
    /\ tpc[Driver] = "idle" /\ presult = Ok("unit")

\* ------------------------------------------------------------------ C38
\* The step is a set() whose value could not be converted.
Rejected(c) == calls'[c] = calls[c] + 1 /\ last'[c].op = "try_into"
\* C38: set(key, value, ttl) with a value that cannot be converted returns
\* InvalidValue before any byte is written: nothing is sent, and the
\* transport, reconnect_attempts and the stored token are unchanged; and
\* InvalidValue is returned in no other case.
C38_InvalidValueFirst ==
    /\ [][\A c \in active :
             Rejected(c) =>
                 /\ last'[c].out = Unconvertible
                 /\ pc'[c] = "done" /\ result'[c] = Err(InvalidValue)
                 /\ sends'[c] = 0 /\ dials'[c] = 0
                 /\ stream'[c] = stream[c]
                 /\ reconnect_attempts'[c] = reconnect_attempts[c]
                 /\ auth_token'[c] = auth_token[c]]_vars
    /\ [](\A c \in active :
             (pc[c] = "done" /\ result[c] = Err(InvalidValue)) <=>
                 last[c].op = "try_into")
\* A set() on a client that stores t1 used up the reconnect budget; the next
\* set(), with a value that does not convert, returned InvalidValue and the
\* counter and the token are as that call left them.
C38_Witness ==
    \E c \in active :
        /\ calls[c] = 3 /\ result[c] = Err(InvalidValue)
        /\ auth_token[c] = "t1" /\ reconnect_attempts[c] > RECONNECT_MAX_ATTEMPTS
        /\ stream[c].written
====
